---- MODULE Spec2Model ----
(***************************************************************************)
(* Model of the metrics agent and collector of go-musthave-metrics-tpl:    *)
(*   - the agent's dispatch loop (Agent.Start, reportWorker,               *)
(*     finalShutdownSend) over the pooled batch accumulator SafeMetrics;   *)
(*   - the retry engines HTTPSender.Retry and PostgresStorage.Retry;       *)
(*   - HTTPSender.SendMetrics with its batch -> per-metric fallback;       *)
(*   - the in-memory storage backend MemStorage.                           *)
(* Each part has its own specification over the shared variable tuple;     *)
(* the variables of the other parts stay at their initial values.          *)
(***************************************************************************)
EXTENDS Integers, Sequences, FiniteSets, TLC

(***************************************************************************)
(* Bounds of the model.                                                    *)
(***************************************************************************)
\* metrics the two samplers collect during one run of Start
MaxMetrics == 3
\* metrics one Collect() call returns, at most
MaxSlice == 2
\* configured rate limit: number of report workers
RateLimit == 1
\* write calls made on one storage
MaxOps == 2
\* entries of one UpdateMetricsBatch call, at most
MaxBatchLen == 2
\* metrics passed to one SendMetrics call, at most
MaxSendLen == 2
\* runtime.NumCPU() of the agent's machine
NumCPU == 2
\* entries of one durable UpdateMetricsBatch call, at most
MaxPgBatch == 2
\* calls made to the durable storage
MaxPgCalls == 2
\* errors the database reports in one run, at most
MaxFaults == 3
\* changes the caller of GetAll makes to the maps it was given
MaxReads == 2
\* goroutines calling the storage concurrently
NumCallers == 2
\* iterations of each goroutine's loop
Iterations == 1
\* seconds after which nothing is cancelled any more
Horizon == 9

(***************************************************************************)
(* Helpers.                                                                *)
(***************************************************************************)
Min(S) == CHOOSE x \in S : \A y \in S : x <= y

Range(s) == {s[i] : i \in 1..Len(s)}

RECURSIVE SumSeq(_)
SumSeq(s) == IF s = <<>> THEN 0 ELSE Head(s) + SumSeq(Tail(s))

(***************************************************************************)
(* AGENT: state.                                                           *)
(***************************************************************************)
VARIABLES
    Item,        \* MetricsBatch.Item of every batch object (metric ids, in order)
    allocated,   \* batch objects created by the pool's factory so far (1..allocated)
    pool,        \* batch objects lying in the sync.Pool
    cur,         \* SafeMetrics.cur: the open batch
    mu,          \* SafeMetrics.mu: the goroutine holding it, or "none"
    metricsCh,   \* the buffered channel of closed batches
    chClosed,    \* close(metricsCh) has run
    cancelled,   \* gctx.Done() is closed
    spc,         \* position of each sampler goroutine
    pend,        \* the slice a sampler is appending
    dpc,         \* position of the dispatcher goroutine
    dBatch,      \* the closed batch in the dispatcher's hands (0: none)
    dReturn,     \* the dispatcher returns after the re-merge (gctx.Done() case)
    wpc,         \* position of each report worker
    wBatch,      \* the batch a worker holds (0: none)
    wArg,        \* the slice a worker passed to the send call in progress
    mpc,         \* position of Start itself after the goroutines were launched
    fBatch,      \* the batch of the final shutdown send (0: none)
    nextId,      \* next metric id a sampler collects
    appended,    \* history: metrics the samplers appended
    appendCalls, \* history: the slice of every sampler Append call
    sentLog,     \* history: the slices passed to the sender, in call order
    fErr,        \* err of Start after finalShutdownSend ("none": not yet)
    failed       \* history: a worker's send call returned an error

agentVars == <<Item, allocated, pool, cur, mu, metricsCh, chClosed, cancelled,
               spc, pend, dpc, dBatch, dReturn, wpc, wBatch, wArg, mpc, fBatch,
               nextId, appended, appendCalls, sentLog, fErr, failed>>

(***************************************************************************)
(* RETRY ENGINE: state of one Retry(ctx, operation) call.                  *)
(***************************************************************************)
VARIABLES
    rEngine,    \* whose Retry runs: "http" (HTTPSender) or "postgres" (PostgresStorage)
    rScript,    \* what the operation returns on its 1st, 2nd, ... invocation
    rpc,        \* position inside Retry: "call", "select" or "done"
    rAttempt,   \* the loop variable attempt
    rCalls,     \* history: invocations of the operation
    rLastErr,   \* lastErr: the invocation whose error it holds (0: nil)
    rCtxDone,   \* ctx.Done() is closed
    rAtCall,    \* history: ctx was already cancelled when Retry was called
    rSelDone,   \* ctx was done when the select was entered
    rWaited,    \* history: the delays waited out in full
    rOutcome,   \* what Retry returned ("none" while it runs)
    rWrapped    \* the invocation whose error the returned error wraps (0: none)

retryVars == <<rEngine, rScript, rpc, rAttempt, rCalls, rLastErr, rCtxDone,
               rAtCall, rSelDone, rWaited, rOutcome, rWrapped>>

(***************************************************************************)
(* IN-MEMORY STORAGE: state of one MemStorage.                             *)
(***************************************************************************)
VARIABLES
    gauges,     \* MemStorage.gauges: id -> float64, for the ids present
    counters,   \* MemStorage.counters: id -> int64, for the ids present
    memOps,     \* history: number of write calls made
    gLast,      \* history: per id, the gauge value written last (<<>>: none)
    gSeen,      \* history: per id, how gauge writes followed each other
    cSum,       \* history: per id, the sum of the counter deltas passed in
    cCount,     \* history: per id, the number of counter deltas passed in
    cVia,       \* history: per id, the calls and signs of the deltas
    gs,         \* the gauge map GetAll built for its caller
    cs,         \* the counter map GetAll built for its caller
    held,       \* the caller's two map references after GetAll
    memReads,   \* changes the caller has made to the returned maps
    mRet,       \* the error the last write call returned
    mLast       \* history: what the last write call skipped and applied

memVars == <<gauges, counters, memOps, gLast, gSeen, cSum, cCount, cVia,
             gs, cs, held, memReads, mRet, mLast>>

(***************************************************************************)
(* SENDER: state of one HTTPSender.SendMetrics call and of the server.     *)
(***************************************************************************)
VARIABLES
    sMetrics,     \* the metrics argument
    sValid,       \* validMetrics
    sBatchStatus, \* the status the server answers on POST /updates/
    sJSONStatus,  \* per metric, the status the server answers on POST /update/
    sTextStatus,  \* the status it answers on POST /update/{type}/{id}/{value}
    sDone,        \* ctx.Done() is closed (and with it gctx and every reqCtx)
    smpc,         \* position of SendMetrics: "batch", "fanout", "wait", "done"
    bpc,          \* position of the batch path's Retry: "call" or "select"
    bAttempt,     \* its loop variable attempt
    bSelDone,     \* ctx was done when its select was entered
    batchErr,     \* what the batch path's Retry returned ("none" while it runs)
    nextTask,     \* index in validMetrics of the next goroutine to start
    tpc,          \* per metric: position of its goroutine
    tAttempt,     \* per metric: the loop variable attempt of its Retry
    tSelDone,     \* per metric: ctx was done when its select was entered
    tErr,         \* per metric: what its Retry returned ("none" while it runs)
    batchReqs,    \* server: requests observed on POST /updates/
    jsonReqs,     \* server: per metric, requests observed on POST /update/
    textReqs,     \* server: per metric, requests observed on the text endpoint
    sResult,      \* what SendMetrics returned ("none" while it runs)
    wireBatch,    \* server: the metric lists received on POST /updates/
    wireItems     \* server: the metrics received on the per-item endpoints

sendVars == <<sMetrics, sValid, sBatchStatus, sJSONStatus, sTextStatus, sDone,
              smpc, bpc, bAttempt, bSelDone, batchErr, nextTask, tpc, tAttempt,
              tSelDone, tErr, batchReqs, jsonReqs, textReqs, sResult,
              wireBatch, wireItems>>

(***************************************************************************)
(* DURABLE STORAGE: the metrics table and one PostgresStorage call.        *)
(***************************************************************************)
VARIABLES
    pgRows,     \* the committed rows of table metrics, by id
    pTx,        \* the rows as the open transaction sees them (<<>>: no tx)
    pCall,      \* the call in progress, or the last one
    ppc,        \* position: "idle", "op", "exec", "select"
    pAttempt,   \* Retry's loop variable attempt
    pStmt,      \* index of the batch entry whose statement runs next
    pSelDone,   \* ctx was done when Retry's select was entered
    pCtxDone,   \* the call's ctx.Done() is closed
    pFaults,    \* history: errors the database reported so far
    pResult,    \* what the call returned ("none" while it runs)
    pCalls,     \* history: calls made
    pBefore,    \* history: the committed rows when the call started
    pLastFail,  \* history: the last failed operation() of the call
    pTries      \* history: operation() invocations of the call

pgVars == <<pgRows, pTx, pCall, ppc, pAttempt, pStmt, pSelDone, pCtxDone,
            pFaults, pResult, pCalls, pBefore, pLastFail, pTries>>

(***************************************************************************)
(* CLASSIFIERS: arguments and results of the two error classifiers.        *)
(***************************************************************************)
VARIABLES
    hErr,     \* ClassifyHTTPError's err argument
    hStatus,  \* ClassifyHTTPError's statusCode argument
    hOut,     \* its result ("none" before the call)
    dErr,     \* PostgresErrorClassifier.Classify's err argument
    dOut      \* its result ("none" before the call)

clsVars == <<hErr, hStatus, hOut, dErr, dOut>>

(***************************************************************************)
(* CONCURRENT STORAGE: goroutines calling one MemStorage, and its RWMutex. *)
(***************************************************************************)
VARIABLES
    kCounters,   \* m.counters
    kMu,         \* the goroutine holding m.mu for writing, 0 for none
    kReaders,    \* the goroutines holding m.mu for reading
    kpc,         \* per goroutine: where it is in its loop
    kTmp,        \* per goroutine: the value `+=` loaded
    kIter,       \* per goroutine: iterations finished
    kDelta,      \* per goroutine: the delta it applies
    kGot,        \* per goroutine: what its last GetCounter returned
    kSum,        \* history: sum of the deltas stored so far
    kCount       \* history: number of deltas stored so far

concVars == <<kCounters, kMu, kReaders, kpc, kTmp, kIter, kDelta, kGot, kSum, kCount>>

(***************************************************************************)
(* REQUESTS: what sendBatch, sendJSON and sendText put into a request.     *)
(***************************************************************************)
VARIABLES
    qKey,        \* HashKey of the sender in use
    qReq,        \* the last request issued
    qPrev        \* the request issued before it

reqVars == <<qKey, qReq, qPrev>>

(***************************************************************************)
(* BOTH BACKENDS: one sequence of calls made to a MemStorage (gauges,      *)
(* counters) and to a PostgresStorage (pgRows).                            *)
(***************************************************************************)
VARIABLES
    bOps,        \* calls made so far
    bKinds       \* history: per id, the kinds it was written with

bothVars == <<bOps, bKinds>>

(***************************************************************************)
(* BOTH ENGINES: HTTPSender.Retry and PostgresStorage.Retry called with    *)
(* the same operation and the same context.                                *)
(***************************************************************************)
VARIABLES
    xScript,     \* what the operation returns on its 1st, 2nd, ... invocation
    xCancelAt,   \* ctx is cancelled half a second after this second
    xpc,         \* per engine: position inside Retry
    xAttempt,    \* per engine: the loop variable attempt
    xCalls,      \* per engine, history: invocations of the operation
    xClock,      \* per engine: seconds since its Retry was called
    xWaited,     \* per engine, history: the delays waited out in full
    xOutcome     \* per engine: what Retry returned ("none" while it runs)

pairVars == <<xScript, xCancelAt, xpc, xAttempt, xCalls, xClock, xWaited, xOutcome>>

(***************************************************************************)
(* SEND CONTEXTS: the contexts of the agent's send calls, for the runs     *)
(* that follow them.                                                       *)
(***************************************************************************)
VARIABLES
    wCtx,   \* sendCtx of each worker's send call in progress
    fCtx    \* shutdownCtx of finalShutdownSend

ctxVars == <<wCtx, fCtx>>

vars == <<agentVars, retryVars, memVars, sendVars, pgVars, clsVars, concVars, reqVars,
          bothVars, pairVars, ctxVars>>

\* what the agent's steps leave alone besides the send contexts
nonAgentCtxVars == <<retryVars, memVars, sendVars, pgVars, clsVars, concVars, reqVars,
    bothVars, pairVars>>
\* what the agent's steps leave alone
nonAgentVars == <<nonAgentCtxVars, ctxVars>>
\* what the retry engine's steps leave alone
nonRetryVars == <<agentVars, memVars, sendVars, pgVars, clsVars, concVars, reqVars,
    bothVars, pairVars, ctxVars>>
\* what the storage's steps leave alone
nonMemVars == <<agentVars, retryVars, sendVars, pgVars, clsVars, concVars, reqVars,
    bothVars, pairVars, ctxVars>>
\* what the sender's steps leave alone
nonSendVars == <<agentVars, retryVars, memVars, pgVars, clsVars, concVars, reqVars,
    bothVars, pairVars, ctxVars>>
\* what the classifiers' steps leave alone
nonClsVars == <<agentVars, retryVars, memVars, sendVars, pgVars, concVars, reqVars,
    bothVars, pairVars, ctxVars>>
\* what the goroutines' steps leave alone
nonConcVars == <<agentVars, retryVars, memVars, sendVars, pgVars, clsVars, reqVars,
    bothVars, pairVars, ctxVars>>
\* what building a request leaves alone
nonReqVars == <<agentVars, retryVars, memVars, sendVars, pgVars, clsVars, concVars,
    bothVars, pairVars, ctxVars>>
\* what the durable storage's steps leave alone
nonPgVars == <<agentVars, retryVars, memVars, sendVars, clsVars, concVars, reqVars,
    bothVars, pairVars, ctxVars>>

NoBatch == 0
Samplers == {"poll", "system"}
Workers == 1..RateLimit
\* make(chan *model.MetricsBatch, a.rateLimit*2)
QueueCap == RateLimit * 2
\* batch objects that can be in use at once: the open batch, the closed batch
\* being handed off, the queued batches and one per worker
MaxBatches == 1 + 1 + QueueCap + RateLimit

(***************************************************************************)
(* AGENT: SafeMetrics and the pool.                                        *)
(***************************************************************************)
\* sync.Mutex: Lock() proceeds only when nobody holds the mutex
LockFree(m) == m = "none"

\* append(sm.cur.Item, metrics...)
AppendItems(items, metrics) == items \o metrics

\* mutant: Reset leaves the items in place
ResetItem_Kept(items) == items

\* MetricsBatch.Reset: Item = Item[:0]
ResetItem(items) == <<>>

\* sync.Pool.Get: a pooled object, or a new one from the factory when the
\* pool has none (pooled objects are all reset, so which one is handed out,
\* or that the collector dropped one, changes only the object's identity)
PoolGetChoices ==
    IF pool # {} THEN {Min(pool)}
    ELSE IF allocated < MaxBatches THEN {allocated + 1} ELSE {}

\* mutant: Get leaves the object in the pool
PoolAfterGet_Kept(p, b) == p

\* the pool after Get handed out batch b
PoolAfterGet(p, b) == p \ {b}

\* mutant: GetAndClear returns sm.cur without replacing it
SwapCur_NoSwap(old, fresh) == old

\* GetAndClear: the new value of sm.cur once `fresh` came from the pool
SwapCur(old, fresh) == fresh

\* SafeMetrics.GetAndClear under the lock: out := sm.cur; sm.cur = sm.pool.Get()
\* (`out` is the batch returned; the caller stores it)
GetAndClear(fresh) ==
    /\ fresh \in PoolGetChoices
    /\ cur' = SwapCur(cur, fresh)
    /\ pool' = PoolAfterGet(pool, fresh)
    /\ allocated' = IF fresh > allocated THEN fresh ELSE allocated

\* SafeMetrics.PutBatch -> Pool.Put: nil is ignored, else Reset() and put back
PutBatch(b) ==
    IF b = NoBatch
    THEN UNCHANGED <<Item, pool>>
    ELSE /\ Item' = [Item EXCEPT ![b] = ResetItem(@)]
         /\ pool' = pool \cup {b}

AgentInit ==
    /\ Item = [b \in 1..MaxBatches |-> <<>>]
    /\ allocated = 1
    /\ pool = {}
    /\ cur = 1
    /\ mu = "none"
    /\ metricsCh = <<>>
    /\ chClosed = FALSE
    /\ cancelled = FALSE
    /\ spc = [s \in Samplers |-> "select"]
    /\ pend = [s \in Samplers |-> <<>>]
    /\ dpc = "select"
    /\ dBatch = NoBatch
    /\ dReturn = FALSE
    /\ wpc = [w \in Workers |-> "recv"]
    /\ wBatch = [w \in Workers |-> NoBatch]
    /\ wArg = [w \in Workers |-> <<>>]
    /\ mpc = "wait"
    /\ fBatch = NoBatch
    /\ nextId = 1
    /\ appended = {}
    /\ appendCalls = {}
    /\ sentLog = <<>>
    /\ fErr = "none"
    /\ failed = FALSE

(***************************************************************************)
(* RETRY ENGINE: HTTPSender.Retry and PostgresStorage.Retry.               *)
(***************************************************************************)
Engines == {"http", "postgres"}
\* results of one invocation of the operation: nil, an error the engine's
\* classifier calls Retriable, an error it calls NonRetriable
OpResults == {"ok", "retriable", "permanent"}

\* DefaultRetryConfig().MaxAttempts
MaxAttempts == 3
\* delays := []time.Duration{1s, 3s, 5s}
Delays == <<1, 3, 5>>

\* mutant: every error is retried
IsRetriable_Always(e) == TRUE

\* IsRetriableError(err) / errorClassifier.Classify(err) == Retriable
IsRetriable(e) == e = "retriable"

\* mutant: off-by-one loop bound
MoreAttempts_OneMore(attempt) == attempt <= MaxAttempts

\* the loop condition: attempt < retryConfig.MaxAttempts
MoreAttempts(attempt) == attempt < MaxAttempts

\* whether the engine enters the select after a retriable failure:
\* HTTPSender: if attempt < len(delays); PostgresStorage: if attempt < MaxAttempts-1
EntersSelect(engine, attempt) ==
    IF engine = "http" THEN attempt < Len(Delays) ELSE attempt < MaxAttempts - 1

\* the delay of the select's timer; attempt counts from 0
DelayOf(engine, attempt) ==
    IF attempt < Len(Delays) THEN Delays[attempt + 1] ELSE Delays[Len(Delays)]

\* mutant: the delay is slept out before the context is looked at
TimerMayFire_Sleep(doneAtEntry) == TRUE

\* case <-time.After(delay): the timer is not ready when the select is
\* entered, so it can only win if ctx.Done() was not ready then
TimerMayFire(doneAtEntry) == ~doneAtEntry

\* no Retry call is in progress
RetryIdle ==
    /\ rEngine = "http"
    /\ rScript = <<>>
    /\ rpc = "idle"
    /\ rAttempt = 0
    /\ rCalls = 0
    /\ rLastErr = 0
    /\ rCtxDone = FALSE
    /\ rAtCall = FALSE
    /\ rSelDone = FALSE
    /\ rWaited = <<>>
    /\ rOutcome = "none"
    /\ rWrapped = 0

\* Retry is called: any engine, any operation, token cancelled or not
RetryInit ==
    /\ rEngine \in Engines
    /\ rScript \in [1..(MaxAttempts + 1) -> OpResults]
    /\ rpc = "call"
    /\ rAttempt = 0
    /\ rCalls = 0
    /\ rLastErr = 0
    /\ rCtxDone \in BOOLEAN
    /\ rAtCall = rCtxDone
    /\ rSelDone = FALSE
    /\ rWaited = <<>>
    /\ rOutcome = "none"
    /\ rWrapped = 0

\* one loop iteration up to the select: err := operation(); nil returns nil;
\* lastErr = err; a non-retriable error returns wrapped; otherwise the select
\* is entered or the loop goes on
RetryAttempt ==
    /\ UNCHANGED nonRetryVars
    /\ rpc = "call"
    /\ MoreAttempts(rAttempt)
    /\ rCalls' = rCalls + 1
    /\ LET err == rScript[rCalls + 1] IN
          IF err = "ok"
          THEN /\ rpc' = "done"
               /\ rOutcome' = "nil"
               /\ UNCHANGED <<rAttempt, rLastErr, rSelDone, rWrapped>>
          ELSE /\ rLastErr' = rCalls + 1
               /\ IF ~IsRetriable(err)
                  THEN /\ rpc' = "done"
                       /\ rOutcome' = "nonretriable"
                       /\ rWrapped' = rCalls + 1
                       /\ UNCHANGED <<rAttempt, rSelDone>>
                  ELSE IF EntersSelect(rEngine, rAttempt)
                  THEN /\ rpc' = "select"
                       /\ rSelDone' = rCtxDone
                       /\ UNCHANGED <<rAttempt, rOutcome, rWrapped>>
                  ELSE /\ rAttempt' = rAttempt + 1
                       /\ UNCHANGED <<rpc, rSelDone, rOutcome, rWrapped>>
    /\ UNCHANGED <<rEngine, rScript, rCtxDone, rAtCall, rWaited>>

\* case <-ctx.Done(): return "operation cancelled" wrapping ctx.Err()
RetryCtxDone ==
    /\ UNCHANGED nonRetryVars
    /\ rpc = "select"
    /\ rCtxDone
    /\ rpc' = "done"
    /\ rOutcome' = "cancelled"
    /\ UNCHANGED <<rEngine, rScript, rAttempt, rCalls, rLastErr, rCtxDone,
                   rAtCall, rSelDone, rWaited, rWrapped>>

\* case <-time.After(delay): next iteration
RetryTimer ==
    /\ UNCHANGED nonRetryVars
    /\ rpc = "select"
    /\ TimerMayFire(rSelDone)
    /\ rWaited' = Append(rWaited, DelayOf(rEngine, rAttempt))
    /\ rAttempt' = rAttempt + 1
    /\ rpc' = "call"
    /\ UNCHANGED <<rEngine, rScript, rCalls, rLastErr, rCtxDone, rAtCall,
                   rSelDone, rOutcome, rWrapped>>

\* the loop ran out: return "all attempts failed" wrapping lastErr
RetryExhausted ==
    /\ UNCHANGED nonRetryVars
    /\ rpc = "call"
    /\ ~MoreAttempts(rAttempt)
    /\ rpc' = "done"
    /\ rOutcome' = "exhausted"
    /\ rWrapped' = rLastErr
    /\ UNCHANGED <<rEngine, rScript, rAttempt, rCalls, rLastErr, rCtxDone,
                   rAtCall, rSelDone, rWaited>>

\* the caller's context is cancelled while Retry runs
RetryCancel ==
    /\ UNCHANGED nonRetryVars
    /\ rpc \in {"call", "select"}
    /\ ~rCtxDone
    /\ rCtxDone' = TRUE
    /\ UNCHANGED <<rEngine, rScript, rpc, rAttempt, rCalls, rLastErr, rAtCall,
                   rSelDone, rWaited, rOutcome, rWrapped>>

RetryNext ==
    \/ RetryAttempt
    \/ RetryCtxDone
    \/ RetryTimer
    \/ RetryExhausted
    \/ RetryCancel

(***************************************************************************)
(* RETRY ENGINE: claims.                                                   *)
(***************************************************************************)
\* C4: when the first error of the operation is non-retriable, Retry invokes
\* it exactly once and returns the wrapped non-retriable error; when the
\* operation fails retriably twice and then succeeds and the token does not
\* cut a wait short, Retry invokes it exactly 3 times and returns nil.
C4_RetryTermination ==
    rpc = "done" =>
        /\ rScript[1] = "permanent" =>
              rCalls = 1 /\ rOutcome = "nonretriable" /\ rWrapped = 1
        /\ (/\ rScript[1] = "retriable"
            /\ rScript[2] = "retriable"
            /\ rScript[3] = "ok"
            /\ rOutcome # "cancelled") =>
              rCalls = 3 /\ rOutcome = "nil"

\* Retry returned nil after two retriable failures
C4_Witness ==
    /\ rpc = "done"
    /\ rScript[1] = "retriable"
    /\ rScript[2] = "retriable"
    /\ rScript[3] = "ok"
    /\ rOutcome = "nil"
    /\ rCalls = 3

\* C5: the operation is never invoked more than MaxAttempts times; when it
\* always fails retriably and the token never fires, Retry returns after
\* exactly MaxAttempts invocations with the "all attempts failed" error
\* wrapping the error of the last invocation.
C5_RetryExhaustion ==
    /\ rCalls <= MaxAttempts
    /\ (/\ rpc = "done"
        /\ \A i \in 1..(MaxAttempts + 1) : rScript[i] = "retriable"
        /\ ~rCtxDone) =>
          rCalls = MaxAttempts /\ rOutcome = "exhausted" /\ rWrapped = MaxAttempts

\* the durable store's Retry gave up on an operation that always fails
C5_Witness ==
    /\ rpc = "done"
    /\ rEngine = "postgres"
    /\ \A i \in 1..(MaxAttempts + 1) : rScript[i] = "retriable"
    /\ ~rCtxDone
    /\ rOutcome = "exhausted"

\* C6: called with an already-cancelled token and an operation whose first
\* invocation fails retriably, Retry returns the cancellation error, having
\* waited out no delay and invoked the operation once.
C6_CancellationPrecedence ==
    (rpc = "done" /\ rAtCall /\ rScript[1] = "retriable") =>
        rOutcome = "cancelled" /\ rWaited = <<>> /\ rCalls = 1

\* the sender's Retry returned the cancellation error under a token that
\* was cancelled before the call
C6_Witness ==
    /\ rpc = "done"
    /\ rEngine = "http"
    /\ rAtCall
    /\ rScript[1] = "retriable"
    /\ rOutcome = "cancelled"

\* C25 as stated: Retry is in its wait only while another attempt remains;
\* once the last allowed attempt has failed retriably it returns the "all
\* attempts failed" error, having waited MaxAttempts - 1 delays, and a
\* cancellation after that failure does not make it a cancellation error.
C25_Original ==
    /\ rpc = "select" => rAttempt < MaxAttempts - 1
    /\ (rpc = "done" /\ rCalls = MaxAttempts /\ rScript[MaxAttempts] = "retriable") =>
          /\ rOutcome = "exhausted"
          /\ Len(rWaited) = MaxAttempts - 1

(***************************************************************************)
(* IN-MEMORY STORAGE: MemStorage.                                          *)
(* Every method holds m.mu for its whole body, so each call is one step.   *)
(***************************************************************************)
MemIds == {"PollCount", "Alloc"}
GaugeValues == {10, 20}
CounterDeltas == {-1, 1, 2}

\* model.Metrics; a pointer field is <<>> for nil and <<v>> otherwise.
\* Batch entries: gauges of one id, counters of the other, with and without
\* their value field, and an entry of a type the switch does not know
MemEntries ==
    [ID : {"Alloc"}, MType : {"gauge"}, Delta : {<<>>},
     Value : {<<>>} \cup {<<v>> : v \in GaugeValues}]
    \cup [ID : {"PollCount"}, MType : {"counter"}, Value : {<<>>},
          Delta : {<<>>} \cup {<<d>> : d \in CounterDeltas}]
    \cup [ID : {"Alloc"}, MType : {"histogram"}, Delta : {<<1>>}, Value : {<<>>}]

\* the batches a caller passes: every list of at most MaxBatchLen entries
MemBatches == UNION {[1..n -> MemEntries] : n \in 0..MaxBatchLen}

\* mutant: a gauge keeps its first value
GaugeSet_KeepFirst(g, id, v) ==
    IF id \in DOMAIN g THEN g ELSE [k \in DOMAIN g \cup {id} |-> IF k = id THEN v ELSE g[k]]

\* m.gauges[id] = value
GaugeSet(g, id, v) == [k \in DOMAIN g \cup {id} |-> IF k = id THEN v ELSE g[k]]

\* mutant: a counter write replaces the stored value
CounterAdd_Replace(c, id, delta) ==
    [k \in DOMAIN c \cup {id} |-> IF k = id THEN delta ELSE c[k]]

\* m.counters[id] += delta (a missing key reads as 0)
CounterAdd(c, id, delta) ==
    [k \in DOMAIN c \cup {id} |->
        IF k = id THEN (IF id \in DOMAIN c THEN c[id] ELSE 0) + delta ELSE c[k]]

\* GetGauge: v, ok := m.gauges[name]
GetGauge(name) ==
    IF name \in DOMAIN gauges THEN <<gauges[name], TRUE>> ELSE <<0, FALSE>>

\* GetCounter: v, ok := m.counters[name]
GetCounter(name) ==
    IF name \in DOMAIN counters THEN <<counters[name], TRUE>> ELSE <<0, FALSE>>

\* mutant: a nil value field is stored as the zero value
ApplyEntry_NilAsZero(st, metric) ==
    IF metric.MType = "gauge"
    THEN [st EXCEPT !.g = GaugeSet(@, metric.ID,
                                   IF metric.Value # <<>> THEN metric.Value[1] ELSE 0)]
    ELSE IF metric.MType = "counter"
    THEN [st EXCEPT !.c = CounterAdd(@, metric.ID,
                                     IF metric.Delta # <<>> THEN metric.Delta[1] ELSE 0)]
    ELSE st

\* one iteration of UpdateMetricsBatch's loop on the pair of maps
ApplyEntry(st, metric) ==
    IF metric.MType = "gauge"
    THEN IF metric.Value # <<>>
         THEN [st EXCEPT !.g = GaugeSet(@, metric.ID, metric.Value[1])]
         ELSE st
    ELSE IF metric.MType = "counter"
    THEN IF metric.Delta # <<>>
         THEN [st EXCEPT !.c = CounterAdd(@, metric.ID, metric.Delta[1])]
         ELSE st
    ELSE st

\* UpdateMetricsBatch's loop over metrics
RECURSIVE ApplyBatch(_, _)
ApplyBatch(st, metrics) ==
    IF metrics = <<>> THEN st
    ELSE ApplyBatch(ApplyEntry(st, Head(metrics)), Tail(metrics))

\* history: the gauge values a batch writes to id, in order
RECURSIVE BatchGaugeWrites(_, _)
BatchGaugeWrites(id, metrics) ==
    IF metrics = <<>> THEN <<>>
    ELSE LET m == Head(metrics) IN
         (IF m.ID = id /\ m.MType = "gauge" /\ m.Value # <<>> THEN m.Value ELSE <<>>)
         \o BatchGaugeWrites(id, Tail(metrics))

\* history: the counter deltas a batch carries for id, in order
RECURSIVE BatchCounterDeltas(_, _)
BatchCounterDeltas(id, metrics) ==
    IF metrics = <<>> THEN <<>>
    ELSE LET m == Head(metrics) IN
         (IF m.ID = id /\ m.MType = "counter" /\ m.Delta # <<>> THEN m.Delta ELSE <<>>)
         \o BatchCounterDeltas(id, Tail(metrics))

\* history: how the writes `ws` follow each other and the last write before
\* them: "replay" a value equal to its predecessor, "change" a different one
SeenIn(last, ws) ==
    LET all == last \o ws IN
    {IF all[i] = all[i + 1] THEN "replay" ELSE "change" : i \in 1..(Len(all) - 1)}

\* history: what a call adds to cVia for the deltas `ds` it applies
ViaOf(call, ds) ==
    (IF ds # <<>> THEN {call} ELSE {})
    \cup (IF \E i \in 1..Len(ds) : ds[i] < 0 THEN {"negative"} ELSE {})

\* history of a write call: gauge values ws(id) and counter deltas ds(id)
MemHistory(call, ws(_), ds(_)) ==
    /\ gLast' = [id \in MemIds |->
                   IF ws(id) = <<>> THEN gLast[id] ELSE <<ws(id)[Len(ws(id))]>>]
    /\ gSeen' = [id \in MemIds |-> gSeen[id] \cup SeenIn(gLast[id], ws(id))]
    /\ cSum' = [id \in MemIds |-> cSum[id] + SumSeq(ds(id))]
    /\ cCount' = [id \in MemIds |-> cCount[id] + Len(ds(id))]
    /\ cVia' = [id \in MemIds |-> cVia[id] \cup ViaOf(call, ds(id))]

\* history: the (kind, id) pairs of a batch's gauge and counter entries whose
\* value field for their kind is nil
NilEntries(metrics) ==
    {<<metrics[i].MType, metrics[i].ID>> : i \in
        {j \in 1..Len(metrics) :
            \/ metrics[j].MType = "gauge" /\ metrics[j].Value = <<>>
            \/ metrics[j].MType = "counter" /\ metrics[j].Delta = <<>>}}

\* history: the (kind, id) pairs of a batch's entries that carry their value
ValueEntries(metrics) ==
    {<<metrics[i].MType, metrics[i].ID>> : i \in
        {j \in 1..Len(metrics) :
            \/ metrics[j].MType = "gauge" /\ metrics[j].Value # <<>>
            \/ metrics[j].MType = "counter" /\ metrics[j].Delta # <<>>}}

\* history before any write call
NoWrite == [call |-> "none", skipped |-> {}, applied |-> {}]

\* the references the caller of GetAll may hold: none yet, the maps GetAll
\* made, or the maps of the storage itself
NoRefs == [g |-> "nil", c |-> "nil"]

\* mutant: GetAll returns the storage's own maps
GetAllRefs_Stored == [g |-> "m.gauges", c |-> "m.counters"]

\* GetAll: gs and cs are new maps made by make(...)
GetAllRefs == [g |-> "gs", c |-> "cs"]

\* GetAll's loops: every key of the stored map with its value
CopyMap(m) == [key \in DOMAIN m |-> m[key]]

\* what a GetAll call returns now: the contents of its two maps
GetAll == <<CopyMap(gauges), CopyMap(counters)>>

\* the value a caller writes into a returned map
MutValue == 99

\* what a caller does to a map it holds: assign a key or delete it
Mutations == {<<"set", MutValue>>, <<"delete">>}

\* a map after the caller's m[key] = v or delete(m, key)
Mutated(m, key, mut) ==
    IF mut[1] = "set"
    THEN [k \in DOMAIN m \cup {key} |-> IF k = key THEN mut[2] ELSE m[k]]
    ELSE [k \in DOMAIN m \ {key} |-> m[k]]

\* no storage in use
MemIdle ==
    /\ gauges = <<>>
    /\ counters = <<>>
    /\ memOps = -1
    /\ gLast = <<>>
    /\ gSeen = <<>>
    /\ cSum = <<>>
    /\ cCount = <<>>
    /\ cVia = <<>>
    /\ gs = <<>>
    /\ cs = <<>>
    /\ held = <<>>
    /\ memReads = -1
    /\ mRet = "none"
    /\ mLast = <<>>

\* New(): two empty maps
MemInit ==
    /\ gauges = <<>>
    /\ counters = <<>>
    /\ memOps = 0
    /\ gLast = [id \in MemIds |-> <<>>]
    /\ gSeen = [id \in MemIds |-> {}]
    /\ cSum = [id \in MemIds |-> 0]
    /\ cCount = [id \in MemIds |-> 0]
    /\ cVia = [id \in MemIds |-> {}]
    /\ gs = <<>>
    /\ cs = <<>>
    /\ held = NoRefs
    /\ memReads = 0
    /\ mRet = "none"
    /\ mLast = NoWrite

\* MemStorage.UpsertGauge(ctx, id, value)
UpsertGauge(id, value) ==
    /\ UNCHANGED nonMemVars
    /\ memOps >= 0 /\ memOps < MaxOps
    /\ memOps' = memOps + 1
    /\ gauges' = GaugeSet(gauges, id, value)
    /\ mRet' = "nil"
    /\ MemHistory("single", LAMBDA k : IF k = id THEN <<value>> ELSE <<>>,
                   LAMBDA k : <<>>)
    /\ mLast' = [NoWrite EXCEPT !.call = "single"]
    /\ UNCHANGED <<counters, gs, cs, held, memReads>>

\* MemStorage.UpsertCounter(ctx, id, delta)
UpsertCounter(id, delta) ==
    /\ UNCHANGED nonMemVars
    /\ memOps >= 0 /\ memOps < MaxOps
    /\ memOps' = memOps + 1
    /\ counters' = CounterAdd(counters, id, delta)
    /\ mRet' = "nil"
    /\ MemHistory("single", LAMBDA k : <<>>,
                   LAMBDA k : IF k = id THEN <<delta>> ELSE <<>>)
    /\ mLast' = [NoWrite EXCEPT !.call = "single"]
    /\ UNCHANGED <<gauges, gs, cs, held, memReads>>

\* MemStorage.UpdateMetricsBatch(ctx, metrics)
UpdateMetricsBatch(metrics) ==
    /\ UNCHANGED nonMemVars
    /\ memOps >= 0 /\ memOps < MaxOps
    /\ memOps' = memOps + 1
    /\ LET st == ApplyBatch([g |-> gauges, c |-> counters], metrics) IN
          /\ gauges' = st.g
          /\ counters' = st.c
    /\ mRet' = "nil"
    /\ MemHistory("batch", LAMBDA k : BatchGaugeWrites(k, metrics),
                   LAMBDA k : BatchCounterDeltas(k, metrics))
    /\ mLast' = [call |-> "batch", skipped |-> NilEntries(metrics),
                 applied |-> ValueEntries(metrics)]
    /\ UNCHANGED <<gs, cs, held, memReads>>

\* MemStorage.GetAll(ctx), the caller keeping the two maps it returns
GetAllCall ==
    /\ UNCHANGED nonMemVars
    /\ memReads >= 0
    /\ gs' = GetAll[1]
    /\ cs' = GetAll[2]
    /\ held' = GetAllRefs
    /\ UNCHANGED <<gauges, counters, memOps, gLast, gSeen, cSum, cCount, cVia,
                   memReads, mRet, mLast>>

\* the caller of GetAll changes the gauge map it was given
MutateGauges(key, mut) ==
    /\ UNCHANGED nonMemVars
    /\ memReads >= 0 /\ memReads < MaxReads
    /\ held.g # "nil"
    /\ memReads' = memReads + 1
    /\ IF held.g = "gs"
       THEN gs' = Mutated(gs, key, mut) /\ UNCHANGED gauges
       ELSE gauges' = Mutated(gauges, key, mut) /\ UNCHANGED gs
    /\ UNCHANGED <<counters, cs, held, memOps, gLast, gSeen, cSum, cCount, cVia,
                   mRet, mLast>>

\* the caller of GetAll changes the counter map it was given
MutateCounters(key, mut) ==
    /\ UNCHANGED nonMemVars
    /\ memReads >= 0 /\ memReads < MaxReads
    /\ held.c # "nil"
    /\ memReads' = memReads + 1
    /\ IF held.c = "cs"
       THEN cs' = Mutated(cs, key, mut) /\ UNCHANGED counters
       ELSE counters' = Mutated(counters, key, mut) /\ UNCHANGED cs
    /\ UNCHANGED <<gauges, gs, held, memOps, gLast, gSeen, cSum, cCount, cVia,
                   mRet, mLast>>

MemNext ==
    \/ \E id \in MemIds, v \in GaugeValues : UpsertGauge(id, v)
    \/ \E id \in MemIds, d \in CounterDeltas : UpsertCounter(id, d)
    \/ \E metrics \in MemBatches : UpdateMetricsBatch(metrics)

\* the storage read through GetAll by a caller that changes what it was
\* given, between single writes to the same two maps
MemReadNext ==
    \/ \E id \in MemIds, v \in GaugeValues : UpsertGauge(id, v)
    \/ \E id \in MemIds, d \in CounterDeltas : UpsertCounter(id, d)
    \/ GetAllCall
    \/ \E key \in MemIds, mut \in Mutations : MutateGauges(key, mut)
    \/ \E key \in MemIds, mut \in Mutations : MutateCounters(key, mut)

(***************************************************************************)
(* IN-MEMORY STORAGE: claims.                                              *)
(***************************************************************************)
\* C9: once deltas d1..dn (n >= 1, negative ones included) have been applied
\* to a counter id through UpsertCounter and UpdateMetricsBatch calls, in
\* any split, GetCounter(id) returns (d1 + ... + dn, true).
C9_CounterAdditivity ==
    \A id \in MemIds :
        cCount[id] >= 1 => GetCounter(id) = <<cSum[id], TRUE>>

\* three or more deltas, one negative, reached one id through both a single
\* upsert and a batch
C9_Witness ==
    \E id \in MemIds :
        /\ cCount[id] >= 3
        /\ cVia[id] = {"single", "batch", "negative"}
        /\ GetCounter(id)[2]

\* C10: GetGauge(id) returns (v, true) with v the most recent gauge value
\* written to id, and found = false for an id no gauge write has touched.
C10_GaugeLastWriteWins ==
    \A id \in MemIds :
        IF gLast[id] = <<>>
        THEN GetGauge(id)[2] = FALSE
        ELSE GetGauge(id) = <<gLast[id][1], TRUE>>

\* a gauge was overwritten by a different value and a value was replayed,
\* while another id has no gauge
C10_Witness ==
    \E id \in MemIds :
        /\ gSeen[id] = {"replay", "change"}
        /\ GetGauge(id)[2]
        /\ \E other \in MemIds : ~GetGauge(other)[2]

\* what GetGauge, GetCounter and GetAll return in the current state
ReadResults ==
    <<[name \in MemIds |-> GetGauge(name)],
      [name \in MemIds |-> GetCounter(name)],
      GetAll>>

\* C19: the maps GetAll returns are independent copies: a step in which the
\* caller sets or deletes a key of a returned gauge or counter map (and a
\* GetAll call itself) leaves what GetGauge, GetCounter and GetAll return
\* unchanged.
C19_GetAllIndependent ==
    [][memOps' = memOps => ReadResults' = ReadResults]_vars

\* the caller has overwritten a stored gauge key and a stored counter key in
\* the maps GetAll returned, and the storage still reports the written values
C19_Witness ==
    /\ held = GetAllRefs
    /\ \E id \in DOMAIN gauges \cap DOMAIN gs :
          /\ gs[id] = MutValue
          /\ GetGauge(id) = <<gLast[id][1], TRUE>>
    /\ \E id \in DOMAIN counters \cap DOMAIN cs :
          /\ cs[id] = MutValue
          /\ GetCounter(id) = <<cSum[id], TRUE>>
    /\ GetAll # <<gs, cs>>

\* C20: UpdateMetricsBatch returns nil; after a batch that carried entries
\* with a nil value field for their kind, an id that only such entries have
\* named has no stored entry of that kind, and every id the batch's other
\* entries named holds the result of applying them.
C20_BatchSkipsNil ==
    /\ mRet \in {"none", "nil"}
    /\ mLast.call = "batch" =>
          /\ mRet = "nil"
          /\ \A e \in mLast.skipped :
                /\ (e[1] = "gauge" /\ gLast[e[2]] = <<>>) => ~GetGauge(e[2])[2]
                /\ (e[1] = "counter" /\ cCount[e[2]] = 0) => ~GetCounter(e[2])[2]
          /\ \A e \in mLast.applied :
                /\ e[1] = "gauge" => GetGauge(e[2]) = <<gLast[e[2]][1], TRUE>>
                /\ e[1] = "counter" => GetCounter(e[2]) = <<cSum[e[2]], TRUE>>

\* a batch skipped a gauge without value and applied a counter: the gauge id
\* has no stored entry and the counter is found
C20_Witness ==
    /\ mLast.call = "batch"
    /\ mRet = "nil"
    /\ \E e \in mLast.skipped, a \in mLast.applied :
          /\ e[1] = "gauge" /\ ~GetGauge(e[2])[2]
          /\ a[1] = "counter" /\ GetCounter(a[2])[2]

(***************************************************************************)
(* SENDER: HTTPSender.SendMetrics, sendBatch, sendOne, sendJSON, sendText. *)
(***************************************************************************)
\* the metrics a caller passes; a pointer field is <<>> for nil, else <<v>>
SendSamples ==
    { [ID |-> "Alloc", MType |-> "gauge", Delta |-> <<>>, Value |-> <<10>>],
      [ID |-> "PollCount", MType |-> "counter", Delta |-> <<1>>, Value |-> <<>>],
      [ID |-> "", MType |-> "gauge", Delta |-> <<>>, Value |-> <<10>>],
      [ID |-> "Alloc", MType |-> "gauge", Delta |-> <<>>, Value |-> <<>>],
      [ID |-> "PollCount", MType |-> "counter", Delta |-> <<>>, Value |-> <<>>],
      [ID |-> "PollCount", MType |-> "counter", Delta |-> <<-1>>, Value |-> <<>>],
      [ID |-> "Alloc", MType |-> "histogram", Delta |-> <<>>, Value |-> <<10>>] }

SendInputs == UNION {[1..n -> SendSamples] : n \in 0..MaxSendLen}

\* the statuses the server may be set to answer
BatchStatuses == {200, 400, 500}
JSONStatuses == {200, 400, 500}
TextStatuses == {200, 500}

\* mutant: the sign of a counter's delta is not checked
ValidMetric_AnyDelta(metric) ==
    /\ metric.ID # ""
    /\ \/ metric.MType = "counter" /\ metric.Delta # <<>>
       \/ metric.MType = "gauge" /\ metric.Value # <<>>

\* validateMetric(metric) == nil
ValidMetric(metric) ==
    /\ metric.ID # ""
    /\ \/ metric.MType = "counter" /\ metric.Delta # <<>> /\ metric.Delta[1] >= 0
       \/ metric.MType = "gauge" /\ metric.Value # <<>>

\* the validation loop of SendMetrics: the valid metrics, in order
RECURSIVE ValidMetrics(_)
ValidMetrics(metrics) ==
    IF metrics = <<>> THEN <<>>
    ELSE (IF ValidMetric(Head(metrics)) THEN <<Head(metrics)>> ELSE <<>>)
         \o ValidMetrics(Tail(metrics))

\* maxConc: max(2, runtime.NumCPU()/2)
MaxConc == IF NumCPU \div 2 > 2 THEN NumCPU \div 2 ELSE 2

\* a batch with one metric more than the semaphore has slots
FanLen == MaxConc + 1

\* mutant: a 5xx answer is not retried
StatusRetriable_No5xx(status) == status \in {408, 429}

\* ClassifyHTTPError(nil, status) == Retriable: 408, 429 or >= 500
StatusRetriable(status) == status \in {408, 429} \/ status >= 500

\* what a request function (sendBatch, sendJSON, sendText) returns for the
\* server's status; under a cancelled context the client fails with "context
\* canceled", which isRetriableNetworkError does not match
RequestResult(status, done) ==
    IF done THEN "permanent"
    ELSE IF StatusRetriable(status) THEN "retriable"
    ELSE IF status # 200 THEN "permanent"
    ELSE "ok"

\* the server observes a request only if the client sent it
Observed(done) == IF done THEN 0 ELSE 1

Tasks == 1..(IF FanLen > MaxSendLen THEN FanLen ELSE MaxSendLen)

\* goroutines of the fallback that hold a slot of the semaphore
ActiveTasks == {i \in Tasks : tpc[i] \in {"json", "text", "select"}}

\* mutant: the fan-out loop starts a goroutine without waiting for a slot
SlotFree_Always(active) == TRUE

\* semafor <- struct{}{} proceeds while fewer than maxConc slots are taken
SlotFree(active) == active < MaxConc

\* mutant: the goroutine returns the error of its Retry
GoReturn_Err(err) == err

\* what a goroutine of the fan-out returns to the errgroup: the error of its
\* Retry is logged, never returned
GoReturn(err) == "nil"

\* gctx is done when ctx is, or when a goroutine returned a non-nil error
GroupDone ==
    sDone \/ \E i \in Tasks : tpc[i] = "done" /\ GoReturn(tErr[i]) # "nil"

\* mutant: g.Wait() does not wait
AllFinished_NoWait(n) == TRUE

\* g.Wait() returns when the n goroutines started have returned
AllFinished(n) == \A i \in 1..n : tpc[i] = "done"

\* g.Wait(): the first non-nil error a goroutine returned, else nil
Wait ==
    IF \E i \in 1..Len(sValid) : GoReturn(tErr[i]) # "nil"
    THEN "error" ELSE "nil"

\* no SendMetrics call in progress
SendIdle ==
    /\ sMetrics = <<>>
    /\ sValid = <<>>
    /\ sBatchStatus = 0
    /\ sJSONStatus = <<>>
    /\ sTextStatus = <<>>
    /\ sDone = FALSE
    /\ smpc = "idle"
    /\ bpc = "idle"
    /\ bAttempt = 0
    /\ bSelDone = FALSE
    /\ batchErr = "none"
    /\ nextTask = 0
    /\ tpc = <<>>
    /\ tAttempt = <<>>
    /\ tSelDone = <<>>
    /\ tErr = <<>>
    /\ batchReqs = 0
    /\ jsonReqs = <<>>
    /\ textReqs = <<>>
    /\ sResult = "none"
    /\ wireBatch = {}
    /\ wireItems = {}

\* SendMetrics is called with any input against any server; the validation
\* loop has run
SendInit ==
    /\ sMetrics \in SendInputs
    /\ sValid = ValidMetrics(sMetrics)
    /\ sBatchStatus \in BatchStatuses
    /\ sJSONStatus \in {[i \in Tasks |-> st] : st \in JSONStatuses}
    /\ sTextStatus \in {[i \in Tasks |-> st] : st \in TextStatuses}
    /\ sDone = FALSE
    /\ smpc = "batch"
    /\ bpc = "call"
    /\ bAttempt = 0
    /\ bSelDone = FALSE
    /\ batchErr = "none"
    /\ nextTask = 1
    /\ tpc = [i \in Tasks |-> "unstarted"]
    /\ tAttempt = [i \in Tasks |-> 0]
    /\ tSelDone = [i \in Tasks |-> FALSE]
    /\ tErr = [i \in Tasks |-> "none"]
    /\ batchReqs = 0
    /\ jsonReqs = [i \in Tasks |-> 0]
    /\ textReqs = [i \in Tasks |-> 0]
    /\ sResult = "none"
    /\ wireBatch = {}
    /\ wireItems = {}

\* FanLen valid metrics
FanInput ==
    [i \in 1..FanLen |->
        IF i % 2 = 1
        THEN [ID |-> "Alloc", MType |-> "gauge", Delta |-> <<>>, Value |-> <<i>>]
        ELSE [ID |-> "PollCount", MType |-> "counter", Delta |-> <<i>>, Value |-> <<>>]]

\* what the server answers for one metric: <<status on /update/, status on
\* /update/{type}/{id}/{value}>>
FanServers == {<<200, 200>>, <<400, 200>>, <<400, 400>>, <<400, 500>>, <<500, 200>>}

\* SendMetrics is called with FanLen valid metrics against a server whose
\* batch endpoint fails and whose answer depends on the metric
FanInit ==
    /\ sMetrics = FanInput
    /\ sValid = ValidMetrics(sMetrics)
    /\ sBatchStatus \in {400, 500}
    /\ \E srv \in [Tasks -> FanServers] :
          /\ sJSONStatus = [i \in Tasks |-> srv[i][1]]
          /\ sTextStatus = [i \in Tasks |-> srv[i][2]]
    /\ sDone = FALSE
    /\ smpc = "batch"
    /\ bpc = "call"
    /\ bAttempt = 0
    /\ bSelDone = FALSE
    /\ batchErr = "none"
    /\ nextTask = 1
    /\ tpc = [i \in Tasks |-> "unstarted"]
    /\ tAttempt = [i \in Tasks |-> 0]
    /\ tSelDone = [i \in Tasks |-> FALSE]
    /\ tErr = [i \in Tasks |-> "none"]
    /\ batchReqs = 0
    /\ jsonReqs = [i \in Tasks |-> 0]
    /\ textReqs = [i \in Tasks |-> 0]
    /\ sResult = "none"
    /\ wireBatch = {}
    /\ wireItems = {}

\* s.Retry(ctx, sendBatch): one loop iteration up to the select
BatchAttempt ==
    /\ UNCHANGED nonSendVars
    /\ smpc = "batch" /\ bpc = "call"
    /\ MoreAttempts(bAttempt)
    /\ wireBatch' = (IF sDone THEN wireBatch ELSE wireBatch \cup {sValid})
    /\ UNCHANGED wireItems
    /\ batchReqs' = batchReqs + Observed(sDone)
    /\ LET err == RequestResult(sBatchStatus, sDone) IN
          IF err = "ok"
          THEN /\ smpc' = "done"
               /\ batchErr' = "nil"
               /\ sResult' = "nil"
               /\ UNCHANGED <<bpc, bAttempt, bSelDone>>
          ELSE IF ~IsRetriable(err)
          THEN /\ smpc' = "fanout"
               /\ batchErr' = "nonretriable"
               /\ UNCHANGED <<bpc, bAttempt, bSelDone, sResult>>
          ELSE IF EntersSelect("http", bAttempt)
          THEN /\ bpc' = "select"
               /\ bSelDone' = sDone
               /\ UNCHANGED <<smpc, bAttempt, batchErr, sResult>>
          ELSE /\ bAttempt' = bAttempt + 1
               /\ UNCHANGED <<smpc, bpc, bSelDone, batchErr, sResult>>
    /\ UNCHANGED <<sMetrics, sValid, sBatchStatus, sJSONStatus, sTextStatus,
                   sDone, nextTask, tpc, tAttempt, tSelDone, tErr, jsonReqs,
                   textReqs>>

\* the batch Retry's select, case <-ctx.Done()
BatchCtxDone ==
    /\ UNCHANGED nonSendVars
    /\ UNCHANGED <<wireBatch, wireItems>>
    /\ smpc = "batch" /\ bpc = "select"
    /\ sDone
    /\ smpc' = "fanout"
    /\ batchErr' = "cancelled"
    /\ UNCHANGED <<sMetrics, sValid, sBatchStatus, sJSONStatus, sTextStatus,
                   sDone, bpc, bAttempt, bSelDone, nextTask, tpc, tAttempt,
                   tSelDone, tErr, batchReqs, jsonReqs, textReqs, sResult>>

\* the batch Retry's select, case <-time.After(delay)
BatchTimer ==
    /\ UNCHANGED nonSendVars
    /\ UNCHANGED <<wireBatch, wireItems>>
    /\ smpc = "batch" /\ bpc = "select"
    /\ TimerMayFire(bSelDone)
    /\ bAttempt' = bAttempt + 1
    /\ bpc' = "call"
    /\ UNCHANGED <<sMetrics, sValid, sBatchStatus, sJSONStatus, sTextStatus,
                   sDone, smpc, bSelDone, batchErr, nextTask, tpc, tAttempt,
                   tSelDone, tErr, batchReqs, jsonReqs, textReqs, sResult>>

\* the batch Retry ran out of attempts: SendMetrics falls back
BatchExhausted ==
    /\ UNCHANGED nonSendVars
    /\ UNCHANGED <<wireBatch, wireItems>>
    /\ smpc = "batch" /\ bpc = "call"
    /\ ~MoreAttempts(bAttempt)
    /\ smpc' = "fanout"
    /\ batchErr' = "exhausted"
    /\ UNCHANGED <<sMetrics, sValid, sBatchStatus, sJSONStatus, sTextStatus,
                   sDone, bpc, bAttempt, bSelDone, nextTask, tpc, tAttempt,
                   tSelDone, tErr, batchReqs, jsonReqs, textReqs, sResult>>

\* the fan-out loop: semafor <- struct{}{} ; g.Go(...)
TaskSpawn ==
    /\ UNCHANGED nonSendVars
    /\ UNCHANGED <<wireBatch, wireItems>>
    /\ smpc = "fanout"
    /\ nextTask <= Len(sValid)
    /\ SlotFree(Cardinality(ActiveTasks))
    /\ tpc' = [tpc EXCEPT ![nextTask] = "json"]
    /\ nextTask' = nextTask + 1
    /\ UNCHANGED <<sMetrics, sValid, sBatchStatus, sJSONStatus, sTextStatus,
                   sDone, smpc, bpc, bAttempt, bSelDone, batchErr, tAttempt,
                   tSelDone, tErr, batchReqs, jsonReqs, textReqs, sResult>>

\* the fan-out loop is over: g.Wait()
FanoutDone ==
    /\ UNCHANGED nonSendVars
    /\ UNCHANGED <<wireBatch, wireItems>>
    /\ smpc = "fanout"
    /\ nextTask > Len(sValid)
    /\ smpc' = "wait"
    /\ UNCHANGED <<sMetrics, sValid, sBatchStatus, sJSONStatus, sTextStatus,
                   sDone, bpc, bAttempt, bSelDone, batchErr, nextTask, tpc,
                   tAttempt, tSelDone, tErr, batchReqs, jsonReqs, textReqs,
                   sResult>>

\* what the task's Retry does with the error its operation (sendOne) returned
TaskAfterOp(i, err) ==
    IF err = "ok"
    THEN /\ tpc' = [tpc EXCEPT ![i] = "done"]
         /\ tErr' = [tErr EXCEPT ![i] = "nil"]
         /\ UNCHANGED <<tAttempt, tSelDone>>
    ELSE IF ~IsRetriable(err)
    THEN /\ tpc' = [tpc EXCEPT ![i] = "done"]
         /\ tErr' = [tErr EXCEPT ![i] = "nonretriable"]
         /\ UNCHANGED <<tAttempt, tSelDone>>
    ELSE IF EntersSelect("http", tAttempt[i])
    THEN /\ tpc' = [tpc EXCEPT ![i] = "select"]
         /\ tSelDone' = [tSelDone EXCEPT ![i] = GroupDone]
         /\ UNCHANGED <<tAttempt, tErr>>
    ELSE /\ tAttempt' = [tAttempt EXCEPT ![i] = @ + 1]
         /\ tpc' = [tpc EXCEPT ![i] = "json"]
         /\ UNCHANGED <<tSelDone, tErr>>

\* mutant: sendOne tries sendText after any error of sendJSON
TextAfterJSON_AnyError(jsonErr) == jsonErr # "ok"

\* sendOne decides after sendJSON: nil and retriable errors are returned,
\* any other error leads to sendText
TextAfterJSON(jsonErr) == jsonErr = "permanent"

\* a loop iteration of the task's Retry: sendOne up to the end of sendJSON
TaskJSON(i) ==
    /\ UNCHANGED nonSendVars
    /\ tpc[i] = "json"
    /\ MoreAttempts(tAttempt[i])
    /\ wireItems' = (IF GroupDone THEN wireItems ELSE wireItems \cup {sValid[i]})
    /\ UNCHANGED wireBatch
    /\ jsonReqs' = [jsonReqs EXCEPT ![i] = @ + Observed(GroupDone)]
    /\ LET jsonErr == RequestResult(sJSONStatus[i], GroupDone) IN
          IF TextAfterJSON(jsonErr)
          THEN /\ tpc' = [tpc EXCEPT ![i] = "text"]
               /\ UNCHANGED <<tAttempt, tSelDone, tErr>>
          ELSE TaskAfterOp(i, jsonErr)
    /\ UNCHANGED <<sMetrics, sValid, sBatchStatus, sJSONStatus, sTextStatus,
                   sDone, smpc, bpc, bAttempt, bSelDone, batchErr, nextTask,
                   batchReqs, textReqs, sResult>>

\* sendOne's sendText and the return into the task's Retry
TaskText(i) ==
    /\ UNCHANGED nonSendVars
    /\ tpc[i] = "text"
    /\ wireItems' = (IF GroupDone THEN wireItems ELSE wireItems \cup {sValid[i]})
    /\ UNCHANGED wireBatch
    /\ textReqs' = [textReqs EXCEPT ![i] = @ + Observed(GroupDone)]
    /\ TaskAfterOp(i, RequestResult(sTextStatus[i], GroupDone))
    /\ UNCHANGED <<sMetrics, sValid, sBatchStatus, sJSONStatus, sTextStatus,
                   sDone, smpc, bpc, bAttempt, bSelDone, batchErr, nextTask,
                   batchReqs, jsonReqs, sResult>>

\* the task Retry's select, case <-gctx.Done()
TaskCtxDone(i) ==
    /\ UNCHANGED nonSendVars
    /\ UNCHANGED <<wireBatch, wireItems>>
    /\ tpc[i] = "select"
    /\ GroupDone
    /\ tpc' = [tpc EXCEPT ![i] = "done"]
    /\ tErr' = [tErr EXCEPT ![i] = "cancelled"]
    /\ UNCHANGED <<sMetrics, sValid, sBatchStatus, sJSONStatus, sTextStatus,
                   sDone, smpc, bpc, bAttempt, bSelDone, batchErr, nextTask,
                   tAttempt, tSelDone, batchReqs, jsonReqs, textReqs, sResult>>

\* the task Retry's select, case <-time.After(delay)
TaskTimer(i) ==
    /\ UNCHANGED nonSendVars
    /\ UNCHANGED <<wireBatch, wireItems>>
    /\ tpc[i] = "select"
    /\ TimerMayFire(tSelDone[i])
    /\ tAttempt' = [tAttempt EXCEPT ![i] = @ + 1]
    /\ tpc' = [tpc EXCEPT ![i] = "json"]
    /\ UNCHANGED <<sMetrics, sValid, sBatchStatus, sJSONStatus, sTextStatus,
                   sDone, smpc, bpc, bAttempt, bSelDone, batchErr, nextTask,
                   tSelDone, tErr, batchReqs, jsonReqs, textReqs, sResult>>

\* the task's Retry ran out of attempts; the goroutine logs and returns nil
TaskExhausted(i) ==
    /\ UNCHANGED nonSendVars
    /\ UNCHANGED <<wireBatch, wireItems>>
    /\ tpc[i] = "json"
    /\ ~MoreAttempts(tAttempt[i])
    /\ tpc' = [tpc EXCEPT ![i] = "done"]
    /\ tErr' = [tErr EXCEPT ![i] = "exhausted"]
    /\ UNCHANGED <<sMetrics, sValid, sBatchStatus, sJSONStatus, sTextStatus,
                   sDone, smpc, bpc, bAttempt, bSelDone, batchErr, nextTask,
                   tAttempt, tSelDone, batchReqs, jsonReqs, textReqs, sResult>>

\* return g.Wait()
SendReturn ==
    /\ UNCHANGED nonSendVars
    /\ UNCHANGED <<wireBatch, wireItems>>
    /\ smpc = "wait"
    /\ AllFinished(Len(sValid))
    /\ smpc' = "done"
    /\ sResult' = Wait
    /\ UNCHANGED <<sMetrics, sValid, sBatchStatus, sJSONStatus, sTextStatus,
                   sDone, bpc, bAttempt, bSelDone, batchErr, nextTask, tpc,
                   tAttempt, tSelDone, tErr, batchReqs, jsonReqs, textReqs>>

\* the caller's context is cancelled while SendMetrics runs
SendCancel ==
    /\ UNCHANGED nonSendVars
    /\ UNCHANGED <<wireBatch, wireItems>>
    /\ smpc \in {"batch", "fanout", "wait"}
    /\ ~sDone
    /\ sDone' = TRUE
    /\ UNCHANGED <<sMetrics, sValid, sBatchStatus, sJSONStatus, sTextStatus,
                   smpc, bpc, bAttempt, bSelDone, batchErr, nextTask, tpc,
                   tAttempt, tSelDone, tErr, batchReqs, jsonReqs, textReqs,
                   sResult>>

SendNext ==
    \/ BatchAttempt
    \/ BatchCtxDone
    \/ BatchTimer
    \/ BatchExhausted
    \/ TaskSpawn
    \/ FanoutDone
    \/ \E i \in Tasks : TaskJSON(i)
    \/ \E i \in Tasks : TaskText(i)
    \/ \E i \in Tasks : TaskCtxDone(i)
    \/ \E i \in Tasks : TaskTimer(i)
    \/ \E i \in Tasks : TaskExhausted(i)
    \/ SendReturn
    \/ SendCancel

(***************************************************************************)
(* SENDER: claims.                                                         *)
(***************************************************************************)
\* the requests the server observed on the per-item endpoints
RECURSIVE SumOver(_, _)
SumOver(f, n) == IF n = 0 THEN 0 ELSE f[n] + SumOver(f, n - 1)

ItemReqs == SumOver(jsonReqs, MaxSendLen) + SumOver(textReqs, MaxSendLen)

\* the case of C7: a batch of 2 valid metrics, a server answering 500 on the
\* batch endpoint and 200 on the per-item endpoints, a context that stays
\* alive, and SendMetrics has returned
C7_Case ==
    /\ smpc = "done"
    /\ Len(sMetrics) = 2
    /\ Len(sValid) = 2
    /\ sBatchStatus = 500
    /\ \A i \in Tasks : sJSONStatus[i] = 200 /\ sTextStatus[i] = 200
    /\ ~sDone

\* C7 as stated: SendMetrics returns nil and the server observes exactly 1
\* batch request and 2 individual requests.
C7_Original ==
    C7_Case => sResult = "nil" /\ batchReqs = 1 /\ ItemReqs = 2

\* C7 as amended: SendMetrics returns nil and the server observes exactly
\* MaxAttempts (3) batch requests, one per attempt of the batch path's Retry,
\* and 2 individual requests, one per metric, both on the JSON endpoint.
C7_FallbackCoverage ==
    C7_Case =>
        /\ sResult = "nil"
        /\ batchReqs = MaxAttempts
        /\ ItemReqs = 2
        /\ \A i \in 1..2 : jsonReqs[i] = 1 /\ textReqs[i] = 0 /\ tErr[i] = "nil"

\* SendMetrics returned nil after the batch path was exhausted and both
\* metrics went through the per-metric fallback
C7_Witness ==
    /\ C7_Case
    /\ batchErr = "exhausted"
    /\ sResult = "nil"
    /\ ItemReqs = 2


\* the entries the claim C16 calls invalid
NeverSent(m) ==
    \/ m.ID = ""
    \/ m.MType = "gauge" /\ m.Value = <<>>
    \/ m.MType = "counter" /\ (m.Delta = <<>> \/ m.Delta[1] < 0)
    \/ m.MType \notin {"gauge", "counter"}

MaySend(m) == ~NeverSent(m)

\* C16 (validation before sending): every batch request carries exactly the
\* valid metrics of the input, in order; every per-metric request carries a
\* valid metric of the input; and once the fallback has finished under a
\* live context, every valid metric has been sent on its own.
C16_OnlyValidOnWire ==
    /\ \A body \in wireBatch : body = SelectSeq(sMetrics, MaySend)
    /\ \A m \in wireItems : MaySend(m) /\ m \in Range(sMetrics)
    /\ (smpc = "done" /\ ~sDone /\ batchErr # "nil") =>
          wireItems = {m \in Range(sMetrics) : MaySend(m)}

\* an input of one invalid and one valid metric went through a failed batch
\* request and the per-metric fallback
C16_Witness ==
    /\ smpc = "done"
    /\ Len(sMetrics) = 2
    /\ NeverSent(sMetrics[1])
    /\ wireBatch = {<<sMetrics[2]>>}
    /\ wireItems = {sMetrics[2]}

\* what Retry around sendOne does for one metric sent on its own under a live
\* context, by the statuses js and ts the server answers for it on the JSON
\* and on the text endpoint: <<JSON requests, text requests, error of Retry>>
AloneOutcome(js, ts) ==
    IF js = 200 THEN <<1, 0, "nil">>
    ELSE IF js = 500 THEN <<MaxAttempts, 0, "exhausted">>
    ELSE IF ts = 200 THEN <<1, 1, "nil">>
    ELSE IF ts = 500 THEN <<MaxAttempts, MaxAttempts, "exhausted">>
    ELSE <<1, 1, "nonretriable">>

\* the fallback ran to its end under a context that stayed alive
FallbackDone == smpc = "done" /\ ~sDone /\ batchErr \notin {"none", "nil"}

\* C27 (independent per-metric sends): when the fallback has run under a live
\* context, every valid metric of the batch has had exactly the requests and
\* the outcome it would have had if it were sent alone, whatever the outcomes
\* of its siblings: no sibling's non-retriable failure or exhausted retries
\* cancels, skips or shortens its attempts.
C27_SiblingsIndependent ==
    FallbackDone =>
        \A i \in 1..Len(sValid) :
            <<jsonReqs[i], textReqs[i], tErr[i]>>
                = AloneOutcome(sJSONStatus[i], sTextStatus[i])

\* a metric failed non-retriably, and a later sibling still made all its
\* MaxAttempts attempts and a third one succeeded
C27_Witness ==
    /\ FallbackDone
    /\ \E i, j, k \in 1..Len(sValid) :
          /\ i < j
          /\ tErr[i] = "nonretriable"
          /\ tErr[j] = "exhausted" /\ jsonReqs[j] = MaxAttempts
          /\ tErr[k] = "nil"

\* C28 (bounded fan-out): at any moment the per-metric sends in flight are at
\* most max(2, NumCPU / 2), also for a batch with more metrics than that.
C28_BoundedFanout ==
    LET half == NumCPU \div 2
        limit == IF half > 2 THEN half ELSE 2
    IN  Cardinality(ActiveTasks) <= limit

\* the limit is reached while a metric of the batch still waits for a slot
C28_Witness ==
    /\ smpc = "fanout"
    /\ nextTask <= Len(sValid)
    /\ Cardinality(ActiveTasks) = MaxConc
    /\ Len(sValid) > MaxConc

\* C29 (text only after a non-retriable JSON failure): the server sees a text
\* request for a metric only after a JSON request for it that it answered with
\* a non-retriable status (400), and under a live context it sees one text
\* request for each such JSON request; for a metric whose JSON request
\* succeeds (200) it sees that one request and nothing more, and for a metric
\* whose JSON request fails retriably (500) it sees no text request, only the
\* JSON requests of the retries.
C29_TextIffJSONPermanent ==
    \A i \in Tasks :
        /\ textReqs[i] <= jsonReqs[i]
        /\ sJSONStatus[i] \in {200, 500} => textReqs[i] = 0
        /\ (sJSONStatus[i] = 400 /\ ~sDone) =>
              textReqs[i] = (IF tpc[i] = "text" THEN jsonReqs[i] - 1
                             ELSE jsonReqs[i])
        /\ (sJSONStatus[i] = 200 /\ ~sDone /\ tpc[i] = "done") =>
              jsonReqs[i] = 1
        /\ (sJSONStatus[i] = 500 /\ ~sDone /\ tpc[i] = "done") =>
              jsonReqs[i] = MaxAttempts

\* one metric went to the text endpoint in every attempt, one was retried on
\* the JSON endpoint alone, and one was sent by its first JSON request
C29_Witness ==
    /\ FallbackDone
    /\ \E i, j, k \in 1..Len(sValid) :
          /\ sJSONStatus[i] = 400 /\ textReqs[i] = MaxAttempts
          /\ sJSONStatus[j] = 500 /\ jsonReqs[j] = MaxAttempts /\ textReqs[j] = 0
          /\ sJSONStatus[k] = 200 /\ jsonReqs[k] = 1 /\ textReqs[k] = 0

\* C30 (best-effort fallback): SendMetrics has a result only when it is done;
\* when it is done after a failed batch path, every per-metric send has
\* finished and the result is nil, whatever the sends' outcomes and whether
\* or not the context was cancelled.
C30_NilAfterAllSends ==
    /\ sResult # "none" => smpc = "done"
    /\ (smpc = "done" /\ batchErr # "nil") =>
          /\ sResult = "nil"
          /\ \A i \in 1..Len(sValid) : tpc[i] = "done" /\ tErr[i] # "none"

\* the batch request failed in every attempt, so did every attempt of both
\* per-metric sends, and SendMetrics returned nil
C30_Witness ==
    /\ smpc = "done"
    /\ ~sDone
    /\ batchErr = "exhausted"
    /\ batchReqs = MaxAttempts
    /\ Len(sValid) = 2
    /\ \A i \in 1..2 : tErr[i] = "exhausted" /\ jsonReqs[i] = MaxAttempts
    /\ sResult = "nil"

(***************************************************************************)
(* DURABLE STORAGE: PostgresStorage over the metrics table.                *)
(* A database call (BeginTx, ExecContext, Commit) either succeeds or fails *)
(* with an error the driver reports; a failed Commit applies nothing.      *)
(***************************************************************************)
PgIds == {"Alloc", "PollCount"}

\* an error value: pg says whether errors.As finds a *pgconn.PgError in its
\* chain; class and sub are the two parts of the five-character code
NoErr == [pg |-> FALSE, class |-> "", sub |-> ""]

\* the errors the database is made to report: serialization_failure,
\* connection_failure, unique_violation, and a plain errors.New("db error")
PgFaults ==
    { [pg |-> TRUE, class |-> "40", sub |-> "001"],
      [pg |-> TRUE, class |-> "08", sub |-> "006"],
      [pg |-> TRUE, class |-> "23", sub |-> "505"],
      [pg |-> FALSE, class |-> "", sub |-> ""] }

\* what a database call fails with under a cancelled context
CtxErr == [pg |-> FALSE, class |-> "", sub |-> ""]

\* the codes of classifyPostgresError's switch: SerializationFailure 40001,
\* DeadlockDetected 40P01, AdminShutdown 57P01, CrashShutdown 57P02,
\* CannotConnectNow 57P03
RetriableCodes ==
    { <<"40", "001">>, <<"40", "P01">>, <<"57", "P01">>, <<"57", "P02">>,
      <<"57", "P03">> }

\* mutant: only the connection-exception class is retried
PgCodeRetriable_ClassOnly(class, sub) == class = "08"

\* classifyPostgresError(pgErr) == Retriable
PgCodeRetriable(class, sub) == class = "08" \/ <<class, sub>> \in RetriableCodes

\* PostgresErrorClassifier.Classify(err) == Retriable; err is NoErr for nil
PgClassify(err) == err # NoErr /\ err.pg /\ PgCodeRetriable(err.class, err.sub)

\* fmt.Errorf("...: %v", err): the text is kept, the chain is not
WrapV(err) == [err EXCEPT !.pg = FALSE]

\* mutant: every path returns the statement's error as text
StmtError_Text(op, err) == WrapV(err)

\* what the operation returns when its statement fails: the single upserts
\* return err itself, UpdateMetricsBatch returns fmt.Errorf("...: %v", err)
StmtError(op, err) == IF op = "batch" THEN WrapV(err) ELSE err

\* a row of the metrics table; NoRow: no row for the id
NoRow == [mtype |-> "none", value |-> <<>>, delta |-> <<>>]

\* INSERT ... ON CONFLICT (id) DO UPDATE SET value = EXCLUDED.value,
\* delta = NULL
GaugeRow(row, v) ==
    IF row = NoRow
    THEN [mtype |-> "gauge", value |-> <<v>>, delta |-> <<>>]
    ELSE [row EXCEPT !.value = <<v>>, !.delta = <<>>]

\* mutant: ON CONFLICT ... SET delta = EXCLUDED.delta
CounterRow_Replace(row, d) == [mtype |-> IF row = NoRow THEN "counter" ELSE row.mtype,
                               value |-> <<>>, delta |-> <<d>>]

\* INSERT ... ON CONFLICT (id) DO UPDATE SET
\* delta = COALESCE(metrics.delta, 0) + EXCLUDED.delta, value = NULL
CounterRow(row, d) ==
    IF row = NoRow
    THEN [mtype |-> "counter", value |-> <<>>, delta |-> <<d>>]
    ELSE [row EXCEPT !.value = <<>>,
                     !.delta = <<(IF row.delta = <<>> THEN 0 ELSE row.delta[1]) + d>>]

\* the statement of one entry (or of a single upsert) applied to the table
ExecStmt(rows, mtype, id, v) ==
    IF mtype = "gauge" THEN [rows EXCEPT ![id] = GaugeRow(rows[id], v)]
    ELSE [rows EXCEPT ![id] = CounterRow(rows[id], v)]

\* the value an entry carries for its kind
EntryValue(metric) ==
    IF metric.MType = "gauge" THEN metric.Value[1] ELSE metric.Delta[1]

\* the switch of UpdateMetricsBatch: entries of another kind run no statement
HasStmt(metric) == metric.MType \in {"gauge", "counter"}

\* every entry of the batch applied in order, without failure
RECURSIVE ApplyAll(_, _)
ApplyAll(rows, metrics) ==
    IF metrics = <<>> THEN rows
    ELSE ApplyAll(IF HasStmt(Head(metrics))
                  THEN ExecStmt(rows, Head(metrics).MType, Head(metrics).ID,
                                EntryValue(Head(metrics)))
                  ELSE rows,
                  Tail(metrics))

\* mutant: the statements of a rolled-back transaction stay
RolledBack_Kept(rows, tx) == tx

\* the table after tx.Rollback()
RolledBack(rows, tx) == rows

\* the entries a caller passes to UpdateMetricsBatch, value fields present
PgEntries ==
    { [ID |-> "Alloc", MType |-> "gauge", Delta |-> <<>>, Value |-> <<20>>],
      [ID |-> "PollCount", MType |-> "counter", Delta |-> <<2>>, Value |-> <<>>],
      [ID |-> "Alloc", MType |-> "histogram", Delta |-> <<>>, Value |-> <<10>>] }

PgBatches == UNION {[1..n -> PgEntries] : n \in 0..MaxPgBatch}

NoCall == [op |-> "none", id |-> "", v |-> 0, metrics |-> <<>>]

\* the calls a client makes
PgCalls ==
    { [op |-> "gauge", id |-> "Alloc", v |-> v, metrics |-> <<>>] : v \in {10, 20} }
    \cup { [op |-> "counter", id |-> "PollCount", v |-> d, metrics |-> <<>>] :
             d \in {1, 2} }
    \cup { [op |-> "batch", id |-> "", v |-> 0, metrics |-> m] : m \in PgBatches }

\* the outcomes of one database call: NoErr for success, or a fault while the
\* budget lasts; under a cancelled context the call fails
DbOutcomes ==
    IF pCtxDone THEN {CtxErr}
    ELSE {NoErr} \cup (IF pFaults < MaxFaults THEN PgFaults ELSE {})

\* a fault was injected by this database call
FaultsAfter(err) == IF err # NoErr /\ ~pCtxDone THEN pFaults + 1 ELSE pFaults

NoFail == [where |-> "none", err |-> NoErr, raw |-> NoErr, attempt |-> 0]

\* no durable storage in use
PgIdle ==
    /\ pgRows = <<>>
    /\ pTx = <<>>
    /\ pCall = NoCall
    /\ ppc = "off"
    /\ pAttempt = 0
    /\ pStmt = 0
    /\ pSelDone = FALSE
    /\ pCtxDone = FALSE
    /\ pFaults = 0
    /\ pResult = "none"
    /\ pCalls = 0
    /\ pBefore = <<>>
    /\ pLastFail = NoFail
    /\ pTries = 0

\* an empty table, no call in progress
PgInit ==
    /\ pgRows = [id \in PgIds |-> NoRow]
    /\ pTx = <<>>
    /\ pCall = NoCall
    /\ ppc = "idle"
    /\ pAttempt = 0
    /\ pStmt = 0
    /\ pSelDone = FALSE
    /\ pCtxDone = FALSE
    /\ pFaults = 0
    /\ pResult = "none"
    /\ pCalls = 0
    /\ pBefore = [id \in PgIds |-> NoRow]
    /\ pLastFail = NoFail
    /\ pTries = 0

\* a client calls UpsertGauge, UpsertCounter or UpdateMetricsBatch
PgCall ==
    /\ UNCHANGED nonPgVars
    /\ ppc = "idle"
    /\ pCalls < MaxPgCalls
    /\ \E c \in PgCalls : pCall' = c
    /\ pCalls' = pCalls + 1
    /\ ppc' = "op"
    /\ pAttempt' = 0
    /\ pTries' = 0
    /\ pStmt' = 0
    /\ pSelDone' = FALSE
    /\ pCtxDone' = FALSE
    /\ pResult' = "none"
    /\ pBefore' = pgRows
    /\ pLastFail' = NoFail
    /\ UNCHANGED <<pgRows, pTx, pFaults>>

\* Retry after operation() returned err (not nil) at the given place
PgAfterOp(where, err, raw) ==
    /\ pLastFail' = [where |-> where, err |-> err, raw |-> raw, attempt |-> pAttempt]
    /\ IF ~PgClassify(err)
       THEN /\ ppc' = "idle"
            /\ pResult' = "nonretriable"
            /\ UNCHANGED <<pAttempt, pSelDone>>
       ELSE IF EntersSelect("postgres", pAttempt)
       THEN /\ ppc' = "select"
            /\ pSelDone' = pCtxDone
            /\ UNCHANGED <<pAttempt, pResult>>
       ELSE /\ ppc' = "op"
            /\ pAttempt' = pAttempt + 1
            /\ UNCHANGED <<pSelDone, pResult>>

\* one attempt of UpsertGauge / UpsertCounter: p.db.ExecContext
PgSingleExec ==
    /\ UNCHANGED nonPgVars
    /\ ppc = "op"
    /\ pCall.op \in {"gauge", "counter"}
    /\ MoreAttempts(pAttempt)
    /\ pTries' = pTries + 1
    /\ \E err \in DbOutcomes :
          /\ pFaults' = FaultsAfter(err)
          /\ IF err = NoErr
             THEN /\ pgRows' = ExecStmt(pgRows, pCall.op, pCall.id, pCall.v)
                  /\ ppc' = "idle"
                  /\ pResult' = "nil"
                  /\ UNCHANGED <<pAttempt, pSelDone, pLastFail>>
             ELSE /\ PgAfterOp("single", StmtError(pCall.op, err), err)
                  /\ UNCHANGED pgRows
    /\ UNCHANGED <<pTx, pCall, pStmt, pCtxDone, pCalls, pBefore>>

\* one attempt of UpdateMetricsBatch starts: p.db.BeginTx
PgBegin ==
    /\ UNCHANGED nonPgVars
    /\ ppc = "op"
    /\ pCall.op = "batch"
    /\ MoreAttempts(pAttempt)
    /\ pTries' = pTries + 1
    /\ \E err \in DbOutcomes :
          /\ pFaults' = FaultsAfter(err)
          /\ IF err = NoErr
             THEN /\ pTx' = pgRows
                  /\ pStmt' = 1
                  /\ ppc' = "exec"
                  /\ UNCHANGED <<pAttempt, pSelDone, pResult, pLastFail>>
             ELSE /\ PgAfterOp("begin", err, err)
                  /\ UNCHANGED <<pTx, pStmt>>
    /\ UNCHANGED <<pgRows, pCall, pCtxDone, pCalls, pBefore>>

\* the loop body of UpdateMetricsBatch for the next entry: tx.ExecContext,
\* and on failure the return through the deferred tx.Rollback()
PgExec ==
    /\ UNCHANGED nonPgVars
    /\ ppc = "exec"
    /\ pStmt <= Len(pCall.metrics)
    /\ LET metric == pCall.metrics[pStmt] IN
          IF ~HasStmt(metric)
          THEN /\ pStmt' = pStmt + 1
               /\ UNCHANGED <<pgRows, pTx, ppc, pAttempt, pSelDone, pFaults,
                              pResult, pLastFail>>
          ELSE \E err \in DbOutcomes :
                  /\ pFaults' = FaultsAfter(err)
                  /\ IF err = NoErr
                     THEN /\ pTx' = ExecStmt(pTx, metric.MType, metric.ID,
                                             EntryValue(metric))
                          /\ pStmt' = pStmt + 1
                          /\ UNCHANGED <<pgRows, ppc, pAttempt, pSelDone,
                                         pResult, pLastFail>>
                     ELSE /\ pgRows' = RolledBack(pgRows, pTx)
                          /\ pTx' = <<>>
                          /\ PgAfterOp("stmt", StmtError("batch", err), err)
                          /\ UNCHANGED pStmt
    /\ UNCHANGED <<pCall, pCtxDone, pCalls, pBefore, pTries>>

\* return tx.Commit()
PgCommit ==
    /\ UNCHANGED nonPgVars
    /\ ppc = "exec"
    /\ pStmt > Len(pCall.metrics)
    /\ \E err \in DbOutcomes :
          /\ pFaults' = FaultsAfter(err)
          /\ IF err = NoErr
             THEN /\ pgRows' = pTx
                  /\ pTx' = <<>>
                  /\ ppc' = "idle"
                  /\ pResult' = "nil"
                  /\ UNCHANGED <<pAttempt, pSelDone, pLastFail>>
             ELSE /\ pgRows' = RolledBack(pgRows, pTx)
                  /\ pTx' = <<>>
                  /\ PgAfterOp("commit", err, err)
    /\ UNCHANGED <<pCall, pStmt, pCtxDone, pCalls, pBefore, pTries>>

\* Retry's select, case <-ctx.Done()
PgCtxDone ==
    /\ UNCHANGED nonPgVars
    /\ ppc = "select"
    /\ pCtxDone
    /\ ppc' = "idle"
    /\ pResult' = "cancelled"
    /\ UNCHANGED <<pgRows, pTx, pCall, pAttempt, pStmt, pSelDone, pCtxDone,
                   pFaults, pCalls, pBefore, pLastFail, pTries>>

\* Retry's select, case <-time.After(delay)
PgTimer ==
    /\ UNCHANGED nonPgVars
    /\ ppc = "select"
    /\ TimerMayFire(pSelDone)
    /\ pAttempt' = pAttempt + 1
    /\ ppc' = "op"
    /\ UNCHANGED <<pgRows, pTx, pCall, pStmt, pSelDone, pCtxDone, pFaults,
                   pResult, pCalls, pBefore, pLastFail, pTries>>

\* Retry's loop is over: the "all attempts failed" error
PgExhausted ==
    /\ UNCHANGED nonPgVars
    /\ ppc = "op"
    /\ ~MoreAttempts(pAttempt)
    /\ ppc' = "idle"
    /\ pResult' = "exhausted"
    /\ UNCHANGED <<pgRows, pTx, pCall, pAttempt, pStmt, pSelDone, pCtxDone,
                   pFaults, pCalls, pBefore, pLastFail, pTries>>

\* the caller's context is cancelled while the call runs
PgCancel ==
    /\ UNCHANGED nonPgVars
    /\ ppc \in {"op", "exec", "select"}
    /\ ~pCtxDone
    /\ pCtxDone' = TRUE
    /\ UNCHANGED <<pgRows, pTx, pCall, ppc, pAttempt, pStmt, pSelDone, pFaults,
                   pResult, pCalls, pBefore, pLastFail, pTries>>

PgNext ==
    \/ PgCall
    \/ PgSingleExec
    \/ PgBegin
    \/ PgExec
    \/ PgCommit
    \/ PgCtxDone
    \/ PgTimer
    \/ PgExhausted
    \/ PgCancel

(***************************************************************************)
(* DURABLE STORAGE: claims.                                                *)
(***************************************************************************)
\* the last call has returned
PgReturned == ppc = "idle" /\ pCall # NoCall

RetriableFault(fail) == fail.raw.pg /\ PgCodeRetriable(fail.raw.class, fail.raw.sub)

\* C12 as stated: a batch statement's failure with a retriable database error
\* while attempts remain does not end the call; the batch is executed again.
C12_Original ==
    (/\ pCall.op = "batch"
     /\ pLastFail.where = "stmt"
     /\ RetriableFault(pLastFail)
     /\ pLastFail.attempt < MaxAttempts - 1)
    => pResult # "nonretriable"

\* C13 (single upsert retry): a single upsert never ends as non-retriable on
\* an error the database classifier retries; it returns nil as soon as an
\* attempt succeeds, having applied its statement exactly once; it gives up
\* only after MaxAttempts attempts.
C13_SingleUpsertRetry ==
    (pCall.op \in {"gauge", "counter"} /\ PgReturned) =>
        /\ pResult = "nonretriable" => ~RetriableFault(pLastFail)
        /\ pResult = "nil" =>
              /\ pTries <= MaxAttempts
              /\ pgRows = ExecStmt(pBefore, pCall.op, pCall.id, pCall.v)
        /\ pResult = "exhausted" => pTries = MaxAttempts /\ pgRows = pBefore

\* a single upsert returned nil on its third attempt, after two retriable
\* failures
C13_Witness ==
    /\ PgReturned
    /\ pCall.op = "counter"
    /\ pResult = "nil"
    /\ pTries = MaxAttempts
    /\ RetriableFault(pLastFail)

\* the stored delta of an id, 0 without a row or with delta NULL
StoredDelta(rows, id) == IF rows[id].delta = <<>> THEN 0 ELSE rows[id].delta[1]

\* the sum of the deltas of the batch's counter entries for an id
RECURSIVE BatchDelta(_, _)
BatchDelta(metrics, id) ==
    IF metrics = <<>> THEN 0
    ELSE (IF Head(metrics).MType = "counter" /\ Head(metrics).ID = id
          THEN Head(metrics).Delta[1] ELSE 0)
         + BatchDelta(Tail(metrics), id)

NetPatterns ==
    << <<"timeout">>, <<"connection", "refused">>, <<"connection", "reset">>,
       <<"network", "is", "unreachable">>, <<"no", "such", "host">>,
       <<"temporary", "failure">>, <<"EOF">>, <<"connection", "closed">> >>

\* strings.Contains(text, pat)
Contains(text, pat) ==
    \E i \in 0..(Len(text) - Len(pat)) : SubSeq(text, i + 1, i + Len(pat)) = pat

\* mutant: the error text is not looked at
IsRetriableNetworkError_Never(text) == FALSE

\* isRetriableNetworkError(err) for a non-nil err with this text
IsRetriableNetworkError(text) ==
    \E k \in 1..Len(NetPatterns) : Contains(text, NetPatterns[k])

\* ClassifyHTTPError(err, statusCode); err is [nil, text]
ClassifyHTTPError(err, statusCode) ==
    IF err.nil /\ statusCode = 0 THEN "NonRetriable"
    ELSE IF ~err.nil /\ IsRetriableNetworkError(err.text) THEN "Retriable"
    ELSE IF StatusRetriable(statusCode) THEN "Retriable"
    ELSE "NonRetriable"

\* error texts of transient network conditions, as the client reports them
TransientTexts ==
    { <<"timeout">>,
      <<"dial", "tcp:", "i/o", "timeout">>,
      <<"connection", "refused">>,
      <<"dial", "tcp", "127.0.0.1:8080:", "connect:", "connection", "refused">>,
      <<"read:", "connection", "reset", "by", "peer">>,
      <<"connect:", "network", "is", "unreachable">>,
      <<"lookup", "host:", "no", "such", "host">>,
      <<"temporary", "failure", "in", "name", "resolution">>,
      <<"EOF">>,
      <<"unexpected", "EOF">>,
      <<"http:", "connection", "closed">> }

\* error texts of other conditions
OtherTexts ==
    { <<>>,
      <<"context", "canceled">>,
      <<"context", "deadline", "exceeded">>,
      <<"tls:", "bad", "certificate">>,
      <<"unsupported", "protocol", "scheme">>,
      <<"connection", "of", "unknown", "kind">>,
      <<"refused">>,
      <<"no", "host">>,
      <<"failed", "to", "marshal", "metric">> }

\* the err arguments: nil, or an error with one of the texts
NetErrors ==
    { [nil |-> TRUE, text |-> <<>>] }
    \cup { [nil |-> FALSE, text |-> t] : t \in TransientTexts \cup OtherTexts }

\* the statusCode arguments; 0: no response
NetStatuses ==
    {0, 200, 204, 301, 400, 401, 403, 404, 405, 408, 409, 418, 429, 499, 500,
     502, 503, 504, 599}

\* the err arguments of the database classifier: nil, plain errors (one of
\* them carrying a code in its text only), and *pgconn.PgError values
DbErrors ==
    { NoErr,
      [pg |-> FALSE, class |-> "", sub |-> "some error"],
      [pg |-> FALSE, class |-> "08", sub |-> "000"],
      [pg |-> FALSE, class |-> "40", sub |-> "001"] }
    \cup { [pg |-> TRUE, class |-> c[1], sub |-> c[2]] : c \in
             { <<"08", "000">>, <<"08", "001">>, <<"08", "003">>, <<"08", "004">>,
               <<"08", "006">>, <<"08", "P01">>, <<"08", "">>,
               <<"40", "001">>, <<"40", "P01">>, <<"40", "000">>, <<"40", "002">>,
               <<"57", "P01">>, <<"57", "P02">>, <<"57", "P03">>, <<"57", "014">>,
               <<"57", "000">>, <<"23", "505">>, <<"23", "503">>, <<"42", "601">>,
               <<"42", "501">>, <<"28", "000">>, <<"28", "P01">>, <<"53", "300">>,
               <<"80", "000">>, <<"", "">> } }

\* no classification in progress
ClsIdle ==
    /\ hErr = [nil |-> TRUE, text |-> <<>>]
    /\ hStatus = 0
    /\ hOut = "off"
    /\ dErr = NoErr
    /\ dOut = "off"

\* any arguments for both classifiers
ClsInit ==
    /\ hErr \in NetErrors
    /\ hStatus \in NetStatuses
    /\ hOut = "none"
    /\ dErr \in DbErrors
    /\ dOut = "none"

\* classifier.ClassifyHTTPError(err, statusCode)
ClassifyHTTP ==
    /\ UNCHANGED nonClsVars
    /\ hOut = "none"
    /\ hOut' = ClassifyHTTPError(hErr, hStatus)
    /\ UNCHANGED <<hErr, hStatus, dErr, dOut>>

\* classifier.Classify(err)
ClassifyDb ==
    /\ UNCHANGED nonClsVars
    /\ dOut = "none"
    /\ dOut' = (IF PgClassify(dErr) THEN "Retriable" ELSE "NonRetriable")
    /\ UNCHANGED <<hErr, hStatus, hOut, dErr>>

ClsNext ==
    \/ ClassifyHTTP
    \/ ClassifyDb

(***************************************************************************)
(* CLASSIFIERS: claims.                                                    *)
(***************************************************************************)
\* C14 (network classifier): the result is Retriable exactly when the error
\* text is one of a transient network condition or the status is 408, 429
\* or at least 500; every other input is NonRetriable, a nil error with no
\* status and every other 4xx status included.
C14_NetworkClassifier ==
    hOut \in {"Retriable", "NonRetriable"} =>
        /\ hOut = "Retriable" <=>
              \/ ~hErr.nil /\ hErr.text \in TransientTexts
              \/ hStatus \in {408, 429}
              \/ hStatus >= 500
        /\ (hErr.nil /\ hStatus = 0) => hOut = "NonRetriable"
        /\ (hErr.nil /\ hStatus \in 400..499 \ {408, 429}) => hOut = "NonRetriable"

\* the classifier has answered Retriable for a transient text without a
\* status
C14_Witness ==
    /\ hOut = "Retriable"
    /\ ~hErr.nil
    /\ hErr.text = <<"read:", "connection", "reset", "by", "peer">>
    /\ hStatus = 0

\* C15 (database classifier): the result is Retriable exactly for structured
\* database errors of class 08 or with code 40001, 40P01, 57P01, 57P02 or
\* 57P03; other codes, errors that are not structured database errors (one
\* carrying a code only as text included) and nil are NonRetriable.
C15_DatabaseClassifier ==
    dOut \in {"Retriable", "NonRetriable"} =>
        /\ dOut = "Retriable" <=>
              /\ dErr.pg
              /\ \/ dErr.class = "08"
                 \/ <<dErr.class, dErr.sub>> \in
                       { <<"40", "001">>, <<"40", "P01">>, <<"57", "P01">>,
                         <<"57", "P02">>, <<"57", "P03">> }
        /\ ~dErr.pg => dOut = "NonRetriable"

\* the classifier has answered Retriable for deadlock_detected
C15_Witness ==
    /\ dOut = "Retriable"
    /\ dErr = [pg |-> TRUE, class |-> "40", sub |-> "P01"]

(***************************************************************************)
(* AGENT: the sampler goroutines.                                          *)
(***************************************************************************)
\* ticker case: Collect() returned a slice and Append took sm.mu
SamplerLock(s) ==
    /\ UNCHANGED nonAgentVars
    /\ UNCHANGED <<fErr, failed>>
    /\ spc[s] = "select"
    /\ LockFree(mu)
    /\ \E n \in 1..MaxSlice :
          /\ nextId + n - 1 <= MaxMetrics
          /\ pend' = [pend EXCEPT ![s] = [i \in 1..n |-> nextId + i - 1]]
          /\ nextId' = nextId + n
    /\ mu' = s
    /\ spc' = [spc EXCEPT ![s] = "append"]
    /\ UNCHANGED <<Item, allocated, pool, cur, metricsCh, chClosed, cancelled,
                   dpc, dBatch, dReturn, wpc, wBatch, wArg, mpc, fBatch,
                   appended, appendCalls, sentLog>>

\* Append's body and the deferred Unlock
SamplerAppend(s) ==
    /\ UNCHANGED nonAgentVars
    /\ UNCHANGED <<fErr, failed>>
    /\ spc[s] = "append"
    /\ Item' = [Item EXCEPT ![cur] = AppendItems(@, pend[s])]
    /\ appended' = appended \cup Range(pend[s])
    /\ appendCalls' = appendCalls \cup {pend[s]}
    /\ pend' = [pend EXCEPT ![s] = <<>>]
    /\ mu' = "none"
    /\ spc' = [spc EXCEPT ![s] = "select"]
    /\ UNCHANGED <<allocated, pool, cur, metricsCh, chClosed, cancelled,
                   dpc, dBatch, dReturn, wpc, wBatch, wArg, mpc, fBatch,
                   nextId, sentLog>>

\* case <-gctx.Done(): return nil
SamplerExit(s) ==
    /\ UNCHANGED nonAgentVars
    /\ UNCHANGED <<fErr, failed>>
    /\ spc[s] = "select"
    /\ cancelled
    /\ spc' = [spc EXCEPT ![s] = "exit"]
    /\ UNCHANGED <<Item, allocated, pool, cur, mu, metricsCh, chClosed, cancelled,
                   pend, dpc, dBatch, dReturn, wpc, wBatch, wArg, mpc, fBatch,
                   nextId, appended, appendCalls, sentLog>>

(***************************************************************************)
(* AGENT: the dispatcher goroutine.                                        *)
(***************************************************************************)
\* case <-reportTicker.C: GetAndClear takes sm.mu
DispatchLock ==
    /\ UNCHANGED nonAgentVars
    /\ UNCHANGED <<fErr, failed>>
    /\ dpc = "select"
    /\ LockFree(mu)
    /\ mu' = "dispatcher"
    /\ dpc' = "swap"
    /\ UNCHANGED <<Item, allocated, pool, cur, metricsCh, chClosed, cancelled,
                   spc, pend, dBatch, dReturn, wpc, wBatch, wArg, mpc, fBatch,
                   nextId, appended, appendCalls, sentLog>>

\* GetAndClear's body and Unlock: batch := collectedMetrics.GetAndClear()
DispatchSwap ==
    /\ UNCHANGED nonAgentVars
    /\ UNCHANGED <<fErr, failed>>
    /\ dpc = "swap"
    /\ \E fresh \in PoolGetChoices : GetAndClear(fresh)
    /\ dBatch' = cur
    /\ mu' = "none"
    /\ dpc' = "got"
    /\ UNCHANGED <<Item, metricsCh, chClosed, cancelled, spc, pend, dReturn,
                   wpc, wBatch, wArg, mpc, fBatch, nextId, appended,
                   appendCalls, sentLog>>

\* mutant: no batch counts as empty
IsEmptyBatch_Never(b) == FALSE

\* batch == nil || len(batch.Item) == 0
IsEmptyBatch(b) == b = NoBatch \/ Item[b] = <<>>

\* if batch == nil || len(batch.Item) == 0 { PutBatch(batch); continue }
DispatchEmpty ==
    /\ UNCHANGED nonAgentVars
    /\ UNCHANGED <<fErr, failed>>
    /\ dpc = "got"
    /\ IsEmptyBatch(dBatch)
    /\ PutBatch(dBatch)
    /\ dBatch' = NoBatch
    /\ dpc' = "select"
    /\ UNCHANGED <<allocated, cur, mu, metricsCh, chClosed, cancelled, spc, pend,
                   dReturn, wpc, wBatch, wArg, mpc, fBatch, nextId, appended,
                   appendCalls, sentLog>>

\* mutant: the channel takes a batch whatever it holds
SendReady_Always(ch) == TRUE

\* the channel send of the inner select is ready when the buffer has room
SendReady(ch) == Len(ch) < QueueCap

\* case metricsCh <- batch
DispatchEnqueue ==
    /\ UNCHANGED nonAgentVars
    /\ UNCHANGED <<fErr, failed>>
    /\ dpc = "got"
    /\ ~IsEmptyBatch(dBatch)
    /\ SendReady(metricsCh)
    /\ metricsCh' = Append(metricsCh, dBatch)
    /\ dBatch' = NoBatch
    /\ dpc' = "select"
    /\ UNCHANGED <<Item, allocated, pool, cur, mu, chClosed, cancelled, spc, pend,
                   dReturn, wpc, wBatch, wArg, mpc, fBatch, nextId, appended,
                   appendCalls, sentLog>>

\* case <-gctx.Done(): the batch goes back into the accumulator, then return
DispatchCancelled ==
    /\ UNCHANGED nonAgentVars
    /\ UNCHANGED <<fErr, failed>>
    /\ dpc = "got"
    /\ ~IsEmptyBatch(dBatch)
    /\ cancelled
    /\ dReturn' = TRUE
    /\ dpc' = "remerge"
    /\ UNCHANGED <<Item, allocated, pool, cur, mu, metricsCh, chClosed, cancelled,
                   spc, pend, dBatch, wpc, wBatch, wArg, mpc, fBatch, nextId,
                   appended, appendCalls, sentLog>>

\* default: no other case is ready: the queue is full
DispatchBusy ==
    /\ UNCHANGED nonAgentVars
    /\ UNCHANGED <<fErr, failed>>
    /\ dpc = "got"
    /\ ~IsEmptyBatch(dBatch)
    /\ ~SendReady(metricsCh)
    /\ ~cancelled
    /\ dReturn' = FALSE
    /\ dpc' = "remerge"
    /\ UNCHANGED <<Item, allocated, pool, cur, mu, metricsCh, chClosed, cancelled,
                   spc, pend, dBatch, wpc, wBatch, wArg, mpc, fBatch, nextId,
                   appended, appendCalls, sentLog>>

\* collectedMetrics.Append(batch.Item): Lock
DispatchMergeLock ==
    /\ UNCHANGED nonAgentVars
    /\ UNCHANGED <<fErr, failed>>
    /\ dpc = "remerge"
    /\ LockFree(mu)
    /\ mu' = "dispatcher"
    /\ dpc' = "merge"
    /\ UNCHANGED <<Item, allocated, pool, cur, metricsCh, chClosed, cancelled,
                   spc, pend, dBatch, dReturn, wpc, wBatch, wArg, mpc, fBatch,
                   nextId, appended, appendCalls, sentLog>>

\* mutant: a busy queue drops the closed batch
MergeItems_Dropped(items) == <<>>

\* the items the re-merge appends to the open batch
MergeItems(items) == items

\* collectedMetrics.Append(batch.Item): body and Unlock
DispatchMerge ==
    /\ UNCHANGED nonAgentVars
    /\ UNCHANGED <<fErr, failed>>
    /\ dpc = "merge"
    /\ Item' = [Item EXCEPT ![cur] = AppendItems(@, MergeItems(Item[dBatch]))]
    /\ mu' = "none"
    /\ dpc' = "put"
    /\ UNCHANGED <<allocated, pool, cur, metricsCh, chClosed, cancelled, spc, pend,
                   dBatch, dReturn, wpc, wBatch, wArg, mpc, fBatch, nextId,
                   appended, appendCalls, sentLog>>

\* mutant: the dispatcher returns without closing the queue
DeferredClose_None(returns) == FALSE

\* defer close(metricsCh): the queue is closed when the dispatcher returns
DeferredClose(returns) == returns

\* collectedMetrics.PutBatch(batch); on the gctx.Done() path return, which
\* runs the deferred close(metricsCh)
DispatchPut ==
    /\ UNCHANGED nonAgentVars
    /\ UNCHANGED <<fErr, failed>>
    /\ dpc = "put"
    /\ PutBatch(dBatch)
    /\ dBatch' = NoBatch
    /\ dpc' = IF dReturn THEN "exit" ELSE "select"
    /\ chClosed' = DeferredClose(dReturn)
    /\ UNCHANGED <<allocated, cur, mu, metricsCh, cancelled, spc, pend, dReturn,
                   wpc, wBatch, wArg, mpc, fBatch, nextId, appended, appendCalls,
                   sentLog>>

\* outer select, case <-gctx.Done(): return nil; deferred close(metricsCh)
DispatchExit ==
    /\ UNCHANGED nonAgentVars
    /\ UNCHANGED <<fErr, failed>>
    /\ dpc = "select"
    /\ cancelled
    /\ dpc' = "exit"
    /\ chClosed' = DeferredClose(TRUE)
    /\ UNCHANGED <<Item, allocated, pool, cur, mu, metricsCh, cancelled, spc, pend,
                   dBatch, dReturn, wpc, wBatch, wArg, mpc, fBatch, nextId,
                   appended, appendCalls, sentLog>>

(***************************************************************************)
(* AGENT: the report workers.                                              *)
(***************************************************************************)
\* for batch := range metricsCh: a receive; an empty batch goes back to the
\* pool, any other is passed to the sender (Retry around SendMetrics always
\* invokes SendMetrics at least once, whatever the context's state)
WorkerRecvStep(w) ==
    /\ UNCHANGED <<fErr, failed>>
    /\ wpc[w] = "recv"
    /\ metricsCh # <<>>
    /\ metricsCh' = Tail(metricsCh)
    /\ LET b == Head(metricsCh) IN
          IF IsEmptyBatch(b)
          THEN /\ PutBatch(b)
               /\ UNCHANGED <<wpc, wBatch, wArg, sentLog>>
          ELSE /\ wBatch' = [wBatch EXCEPT ![w] = b]
               /\ wArg' = [wArg EXCEPT ![w] = Item[b]]
               /\ sentLog' = Append(sentLog, Item[b])
               /\ wpc' = [wpc EXCEPT ![w] = "sending"]
               /\ UNCHANGED <<Item, pool>>
    /\ UNCHANGED <<allocated, cur, mu, chClosed, cancelled, spc, pend, dpc,
                   dBatch, dReturn, mpc, fBatch, nextId, appended, appendCalls>>

\* the receive where the send contexts are not followed
WorkerRecv(w) == UNCHANGED nonAgentVars /\ WorkerRecvStep(w)

\* what the send call (Retry around SendMetrics, under sendCtx) may return
SendOutcomes == {"nil", "nonretriable", "exhausted", "cancelled"}

\* mutant: the worker returns on a failed send
WorkerAfterSend_Fatal(err) == IF err = "nil" THEN "put" ELSE "exit"

\* where the worker goes after the send call returned err: it logs either
\* way and reaches PutBatch
WorkerAfterSend(err) == "put"

\* the send call returns nil or an error
WorkerSendReturnStep(w) ==
    /\ wpc[w] = "sending"
    /\ wArg' = [wArg EXCEPT ![w] = <<>>]
    /\ \E err \in SendOutcomes :
          /\ wpc' = [wpc EXCEPT ![w] = WorkerAfterSend(err)]
          /\ failed' = (failed \/ err # "nil")
    /\ UNCHANGED fErr
    /\ UNCHANGED <<Item, allocated, pool, cur, mu, metricsCh, chClosed, cancelled,
                   spc, pend, dpc, dBatch, dReturn, wBatch, mpc, fBatch, nextId,
                   appended, appendCalls, sentLog>>

\* the return where the send contexts are not followed
WorkerSendReturn(w) == UNCHANGED nonAgentVars /\ WorkerSendReturnStep(w)

\* collectedMetrics.PutBatch(batch) at the end of the loop body
WorkerPut(w) ==
    /\ UNCHANGED nonAgentVars
    /\ UNCHANGED <<fErr, failed>>
    /\ wpc[w] = "put"
    /\ PutBatch(wBatch[w])
    /\ wBatch' = [wBatch EXCEPT ![w] = NoBatch]
    /\ wpc' = [wpc EXCEPT ![w] = "recv"]
    /\ UNCHANGED <<allocated, cur, mu, metricsCh, chClosed, cancelled, spc, pend,
                   dpc, dBatch, dReturn, wArg, mpc, fBatch, nextId, appended,
                   appendCalls, sentLog>>

\* mutant: the worker also returns on ctx.Done(), leaving queued batches
WorkerMayExit_OnCancel(ch, closed, cancel) == cancel \/ (ch = <<>> /\ closed)

\* the range loop ends when the channel is closed and drained
WorkerMayExit(ch, closed, cancel) == ch = <<>> /\ closed

WorkerExit(w) ==
    /\ UNCHANGED nonAgentVars
    /\ UNCHANGED <<fErr, failed>>
    /\ wpc[w] = "recv"
    /\ WorkerMayExit(metricsCh, chClosed, cancelled)
    /\ wpc' = [wpc EXCEPT ![w] = "exit"]
    /\ UNCHANGED <<Item, allocated, pool, cur, mu, metricsCh, chClosed, cancelled,
                   spc, pend, dpc, dBatch, dReturn, wBatch, wArg, mpc, fBatch,
                   nextId, appended, appendCalls, sentLog>>

(***************************************************************************)
(* AGENT: Start after g.Wait(), and the shutdown signal.                   *)
(***************************************************************************)
AllExited ==
    /\ \A s \in Samplers : spc[s] = "exit"
    /\ dpc = "exit"
    /\ \A w \in Workers : wpc[w] = "exit"

\* g.Wait() returned nil; the final GetAndClear takes sm.mu
MainLock ==
    /\ UNCHANGED nonAgentVars
    /\ UNCHANGED <<fErr, failed>>
    /\ mpc = "wait"
    /\ AllExited
    /\ LockFree(mu)
    /\ mu' = "main"
    /\ mpc' = "swap"
    /\ UNCHANGED <<Item, allocated, pool, cur, metricsCh, chClosed, cancelled,
                   spc, pend, dpc, dBatch, dReturn, wpc, wBatch, wArg, fBatch,
                   nextId, appended, appendCalls, sentLog>>

\* batch := collectedMetrics.GetAndClear()
MainSwap ==
    /\ UNCHANGED nonAgentVars
    /\ UNCHANGED <<fErr, failed>>
    /\ mpc = "swap"
    /\ \E fresh \in PoolGetChoices : GetAndClear(fresh)
    /\ fBatch' = cur
    /\ mu' = "none"
    /\ mpc' = "final"
    /\ UNCHANGED <<Item, metricsCh, chClosed, cancelled, spc, pend, dpc, dBatch,
                   dReturn, wpc, wBatch, wArg, nextId, appended, appendCalls,
                   sentLog>>

\* finalShutdownSend: nothing for an empty batch, else the send call starts
MainFinalSendStep ==
    /\ UNCHANGED failed
    /\ mpc = "final"
    /\ IF IsEmptyBatch(fBatch)
       THEN /\ mpc' = "put"
            /\ fErr' = "nil"
            /\ UNCHANGED sentLog
       ELSE /\ mpc' = "sending"
            /\ sentLog' = Append(sentLog, Item[fBatch])
            /\ UNCHANGED fErr
    /\ UNCHANGED <<Item, allocated, pool, cur, mu, metricsCh, chClosed, cancelled,
                   spc, pend, dpc, dBatch, dReturn, wpc, wBatch, wArg, fBatch,
                   nextId, appended, appendCalls>>

\* the final send where the send contexts are not followed
MainFinalSend == UNCHANGED nonAgentVars /\ MainFinalSendStep

\* what finalShutdownSend returns when its send call returned err
FinalShutdownErr(err) == "nil"

\* the final send call returns; its error is only logged
MainFinalReturn ==
    /\ UNCHANGED nonAgentVars
    /\ mpc = "sending"
    /\ \E err \in SendOutcomes : fErr' = FinalShutdownErr(err)
    /\ UNCHANGED failed
    /\ mpc' = "put"
    /\ UNCHANGED <<Item, allocated, pool, cur, mu, metricsCh, chClosed, cancelled,
                   spc, pend, dpc, dBatch, dReturn, wpc, wBatch, wArg, fBatch,
                   nextId, appended, appendCalls, sentLog>>

\* collectedMetrics.PutBatch(batch); return err
MainPut ==
    /\ UNCHANGED nonAgentVars
    /\ UNCHANGED <<fErr, failed>>
    /\ mpc = "put"
    /\ PutBatch(fBatch)
    /\ fBatch' = NoBatch
    /\ mpc' = "returned"
    /\ UNCHANGED <<allocated, cur, mu, metricsCh, chClosed, cancelled, spc, pend,
                   dpc, dBatch, dReturn, wpc, wBatch, wArg, nextId, appended,
                   appendCalls, sentLog>>

\* SIGINT/SIGTERM or the parent context: gctx is cancelled
Cancel ==
    /\ UNCHANGED nonAgentVars
    /\ UNCHANGED <<fErr, failed>>
    /\ ~cancelled
    /\ cancelled' = TRUE
    /\ UNCHANGED <<Item, allocated, pool, cur, mu, metricsCh, chClosed, spc, pend,
                   dpc, dBatch, dReturn, wpc, wBatch, wArg, mpc, fBatch, nextId,
                   appended, appendCalls, sentLog>>

AgentNext ==
    \/ \E s \in Samplers : SamplerLock(s)
    \/ \E s \in Samplers : SamplerAppend(s)
    \/ \E s \in Samplers : SamplerExit(s)
    \/ DispatchLock
    \/ DispatchSwap
    \/ DispatchEmpty
    \/ DispatchEnqueue
    \/ DispatchCancelled
    \/ DispatchBusy
    \/ DispatchMergeLock
    \/ DispatchMerge
    \/ DispatchPut
    \/ DispatchExit
    \/ \E w \in Workers : WorkerRecv(w)
    \/ \E w \in Workers : WorkerSendReturn(w)
    \/ \E w \in Workers : WorkerPut(w)
    \/ \E w \in Workers : WorkerExit(w)
    \/ MainLock
    \/ MainSwap
    \/ MainFinalSend
    \/ MainFinalReturn
    \/ MainPut
    \/ Cancel

(***************************************************************************)
(* SEND CONTEXTS: the agent with the context of every send call. A context *)
(* is its parent, its timeout in seconds and whether it was done when it   *)
(* was made.                                                               *)
(***************************************************************************)
\* no send call in progress
NoCtx == [parent |-> "none", timeout |-> 0, done |-> FALSE]

\* the timeouts of the two send contexts, in seconds
SendTimeout == 5
ShutdownTimeout == 10

\* context.WithTimeout(parent, timeout) at its creation: it is done at once
\* when the parent is
WithTimeout(parent, parentDone, timeout) ==
    [parent |-> parent, timeout |-> timeout, done |-> parentDone]

\* mutant: the worker's context does not descend from gctx
WorkerSendCtx_Fresh(token) == WithTimeout("background", FALSE, SendTimeout)

\* reportWorker: sendCtx := context.WithTimeout(ctx, 5*time.Second), ctx being
\* the gctx the worker was started with; token: gctx.Done() is closed
WorkerSendCtx(token) == WithTimeout("gctx", token, SendTimeout)

\* finalShutdownSend: context.WithTimeout(context.Background(), 10*time.Second)
FinalSendCtx == WithTimeout("background", FALSE, ShutdownTimeout)

\* ctx.Done() is closed: it was at creation, or the parent's has been closed
\* since (context.Background() is never done; the timers are left to the
\* send call, which may return any outcome)
CtxDone(c) == c.done \/ (c.parent = "gctx" /\ cancelled)

\* no agent whose contexts are followed
CtxIdle ==
    /\ wCtx = <<>>
    /\ fCtx = <<>>

\* no send call has been made
CtxInit ==
    /\ wCtx = [w \in Workers |-> NoCtx]
    /\ fCtx = NoCtx

\* reportWorker's receive; for a batch that is not empty, sendCtx is made
CtxWorkerRecv(w) ==
    /\ UNCHANGED nonAgentCtxVars
    /\ WorkerRecvStep(w)
    /\ wCtx' = IF wpc'[w] = "sending"
               THEN [wCtx EXCEPT ![w] = WorkerSendCtx(cancelled)]
               ELSE wCtx
    /\ UNCHANGED fCtx

\* the send call returns; the deferred cancelSend()
CtxWorkerSendReturn(w) ==
    /\ UNCHANGED nonAgentCtxVars
    /\ WorkerSendReturnStep(w)
    /\ wCtx' = [wCtx EXCEPT ![w] = NoCtx]
    /\ UNCHANGED fCtx

\* finalShutdownSend; for a batch that is not empty, shutdownCtx is made
CtxMainFinalSend ==
    /\ UNCHANGED nonAgentCtxVars
    /\ MainFinalSendStep
    /\ fCtx' = IF mpc' = "sending" THEN FinalSendCtx ELSE fCtx
    /\ UNCHANGED wCtx

CtxNext ==
    \/ \E s \in Samplers : SamplerLock(s)
    \/ \E s \in Samplers : SamplerAppend(s)
    \/ \E s \in Samplers : SamplerExit(s)
    \/ DispatchLock
    \/ DispatchSwap
    \/ DispatchEmpty
    \/ DispatchEnqueue
    \/ DispatchCancelled
    \/ DispatchBusy
    \/ DispatchMergeLock
    \/ DispatchMerge
    \/ DispatchPut
    \/ DispatchExit
    \/ \E w \in Workers : CtxWorkerRecv(w)
    \/ \E w \in Workers : CtxWorkerSendReturn(w)
    \/ \E w \in Workers : WorkerPut(w)
    \/ \E w \in Workers : WorkerExit(w)
    \/ MainLock
    \/ MainSwap
    \/ CtxMainFinalSend
    \/ MainFinalReturn
    \/ MainPut
    \/ Cancel

\* the steps of one goroutine
SamplerSteps(s) == SamplerLock(s) \/ SamplerAppend(s) \/ SamplerExit(s)

DispatcherSteps ==
    \/ DispatchLock
    \/ DispatchSwap
    \/ DispatchEmpty
    \/ DispatchEnqueue
    \/ DispatchCancelled
    \/ DispatchBusy
    \/ DispatchMergeLock
    \/ DispatchMerge
    \/ DispatchPut
    \/ DispatchExit

WorkerSteps(w) ==
    WorkerRecv(w) \/ WorkerSendReturn(w) \/ WorkerPut(w) \/ WorkerExit(w)

MainSteps == MainLock \/ MainSwap \/ MainFinalSend \/ MainFinalReturn \/ MainPut

\* scheduling: every goroutine that can take a step eventually takes one (a
\* send call returns, a mutex is handed over), and a select whose
\* gctx.Done() case is ready again and again eventually takes that case
AgentFairness ==
    /\ \A s \in Samplers : WF_vars(SamplerSteps(s))
    /\ WF_vars(DispatcherSteps)
    /\ SF_vars(DispatchExit)
    /\ \A w \in Workers : WF_vars(WorkerSteps(w))
    /\ WF_vars(MainSteps)

(***************************************************************************)
(* AGENT: where a metric is.                                               *)
(***************************************************************************)
ItemsOf(b) == IF b = NoBatch THEN {} ELSE Range(Item[b])

InOpen(m) == m \in ItemsOf(cur)
InQueue(m) == \E i \in 1..Len(metricsCh) : m \in ItemsOf(metricsCh[i])
InWorker(m) == \E w \in Workers : m \in ItemsOf(wBatch[w])
\* the closed batch between GetAndClear and its hand-off (dispatcher or Start)
InHandOff(m) == m \in ItemsOf(dBatch) \/ m \in ItemsOf(fBatch)
PassedToSend(m) == \E i \in 1..Len(sentLog) : m \in Range(sentLog[i])

\* the batches GetAndClear has returned and that are not yet back in the pool
Returned(b) ==
    \/ b = dBatch
    \/ b \in Range(metricsCh)
    \/ \E w \in Workers : b = wBatch[w]
    \/ b = fBatch

\* number of holders of batch object b
HolderCount(b) ==
    (IF cur = b THEN 1 ELSE 0)
    + (IF dBatch = b THEN 1 ELSE 0)
    + Cardinality({i \in 1..Len(metricsCh) : metricsCh[i] = b})
    + Cardinality({w \in Workers : wBatch[w] = b})
    + (IF fBatch = b THEN 1 ELSE 0)
    + (IF b \in pool THEN 1 ELSE 0)

(***************************************************************************)
(* AGENT: claims.                                                          *)
(***************************************************************************)
\* C1: every metric the samplers appended is, in every reachable state, in
\* the open batch, in a queued batch, in a batch a worker holds, in the
\* closed batch being handed off, or has been passed to a send call; and on
\* the re-merge path (queue full or token cancelled) every metric of the
\* closed batch is in the open batch before PutBatch resets the closed batch.
C1_Conservation ==
    /\ \A m \in appended :
          InOpen(m) \/ InQueue(m) \/ InWorker(m) \/ InHandOff(m) \/ PassedToSend(m)
    /\ dpc = "put" => ItemsOf(dBatch) \subseteq ItemsOf(cur)

\* the queue was full, the closed batch has been merged back and is about to
\* be reset
C1_Witness ==
    /\ dpc = "put"
    /\ ~dReturn
    /\ Len(metricsCh) = QueueCap
    /\ Item[dBatch] # <<>>

\* C2: the metrics of one Append call always stay together in one batch (the
\* one a swap returned or the open one), none is lost, and no step appends
\* to a batch that GetAndClear has returned: such a batch only keeps its
\* items or is reset.
C2_NotSplit ==
    \A sl \in appendCalls :
        \/ \E b \in 1..MaxBatches : Range(sl) \subseteq ItemsOf(b)
        \/ \E i \in 1..Len(sentLog) : Range(sl) \subseteq Range(sentLog[i])

C2_AppendSwapAtomic ==
    /\ []C2_NotSplit
    /\ [][\A b \in 1..MaxBatches :
             Returned(b) => (Item'[b] = Item[b] \/ Item'[b] = <<>>)]_vars

\* a two-metric Append landed in the batch a swap returned, and a later
\* Append landed in the new open batch
C2_Witness ==
    /\ dpc = "got"
    /\ \E sl \in appendCalls : Len(sl) = 2 /\ Range(sl) \subseteq ItemsOf(dBatch)
    /\ Item[cur] # <<>>

C8_ShutdownFlush ==
    /\ mpc # "wait" => AllExited
    /\ mpc = "sending" => sentLog[Len(sentLog)] = Item[fBatch]
    /\ mpc \in {"put", "returned"} => \A m \in appended : PassedToSend(m)

\* the final send of a non-empty open batch has returned, after a worker
\* had sent a queued batch
C8_Witness ==
    /\ mpc = "put"
    /\ fBatch # NoBatch
    /\ Item[fBatch] # <<>>
    /\ Len(sentLog) >= 2

\* C17 (send failures are not fatal): whatever the send calls returned, a
\* worker that is back at the receive holds no batch, a worker has exited only
\* with the queue closed and drained, samplers and dispatcher have exited only
\* on shutdown, and Start has returned nil.
C17_SendFailureNotFatal ==
    /\ \A w \in Workers : wpc[w] \in {"recv", "sending", "put", "exit"}
    /\ \A w \in Workers : wpc[w] \in {"recv", "exit"} => wBatch[w] = NoBatch
    /\ \A w \in Workers : wpc[w] = "exit" => chClosed /\ metricsCh = <<>>
    /\ dpc = "exit" => cancelled
    /\ \A s \in Samplers : spc[s] = "exit" => cancelled
    /\ mpc = "returned" => fErr = "nil"

\* after a send call returned an error, and with no shutdown, a worker has
\* returned that batch to the pool and is sending the next one
C17_Witness ==
    /\ failed
    /\ ~cancelled
    /\ \E w \in Workers : wpc[w] = "sending"
    /\ Len(sentLog) >= 2

\* C18 (no empty send): no slice passed to the sender is empty, and a closed
\* batch without metrics is never in the queue nor with a worker: it is in
\* the hands of the dispatcher or of Start on its way to the pool, or pooled.
C18_NoEmptySend ==
    /\ \A i \in 1..Len(sentLog) : sentLog[i] # <<>>
    /\ \A w \in Workers : wpc[w] = "sending" => wArg[w] # <<>>
    /\ mpc = "sending" => Item[fBatch] # <<>>
    /\ \A b \in 1..allocated :
          (b # cur /\ Item[b] = <<>>) =>
              /\ b \notin Range(metricsCh)
              /\ b \in pool \/ b = dBatch \/ b = fBatch

\* the final swap found the accumulator empty after earlier sends: Start is
\* about to pool the empty batch, and no send call was made for it
C18_Witness ==
    /\ mpc = "put"
    /\ fBatch # NoBatch
    /\ Item[fBatch] = <<>>
    /\ fErr = "nil"
    /\ Len(sentLog) >= 1

HandOffStep == dpc = "got" /\ ~IsEmptyBatch(dBatch) /\ dpc' # dpc

\* C31 (bounded queue, non-blocking hand-off): the queue never holds more than
\* 2 * RateLimit batches; with a non-empty closed batch in its hands the
\* dispatcher always has a step to take, and that step either enqueues the
\* batch (the queue had room), or starts the re-merge because the queue is
\* full, or starts the re-merge after which it exits because the token was
\* cancelled; the re-merge that follows a cancellation ends in the exit.
C31_QueueBound ==
    /\ [](Len(metricsCh) <= 2 * RateLimit)
    /\ []((dpc = "got" /\ ~IsEmptyBatch(dBatch)) =>
             ENABLED (DispatchEnqueue \/ DispatchBusy \/ DispatchCancelled))
    /\ [][HandOffStep =>
             \/ /\ Len(metricsCh) < 2 * RateLimit
                /\ metricsCh' = Append(metricsCh, dBatch)
                /\ dpc' = "select"
             \/ /\ Len(metricsCh) = 2 * RateLimit
                /\ ~cancelled
                /\ metricsCh' = metricsCh
                /\ dpc' = "remerge" /\ ~dReturn'
             \/ /\ cancelled
                /\ metricsCh' = metricsCh
                /\ dpc' = "remerge" /\ dReturn']_vars
    /\ [][(dpc = "put" /\ dpc' # dpc) =>
             /\ ItemsOf(dBatch) \subseteq ItemsOf(cur)
             /\ dpc' = (IF dReturn THEN "exit" ELSE "select")]_vars

\* the dispatcher found the queue full and is about to merge its batch back
C31_Witness ==
    /\ dpc = "remerge"
    /\ ~dReturn
    /\ ~cancelled
    /\ Len(metricsCh) = 2 * RateLimit

\* C39 (send contexts): a worker's send call runs under a context made from
\* gctx with the 5 s timeout, so it is done whenever the token has fired; a
\* step in which a worker takes a batch off the queue with the token fired
\* starts the send under a context that is done from its creation; and the
\* final shutdown send runs, with the token fired, under a context made from
\* context.Background() with the 10 s timeout, which is not done at its
\* creation and does not become done with the token.
C39_SendContexts ==
    /\ [](\A w \in Workers :
            /\ wpc[w] = "sending" =>
                  /\ wCtx[w].parent = "gctx"
                  /\ wCtx[w].timeout = SendTimeout
                  /\ cancelled => CtxDone(wCtx[w])
            /\ wpc[w] # "sending" => wCtx[w] = NoCtx)
    /\ [][\A w \in Workers :
            (wpc[w] = "recv" /\ wpc'[w] = "sending" /\ cancelled) => wCtx'[w].done]_vars
    /\ [](mpc = "sending" =>
            /\ cancelled
            /\ fCtx.parent = "background"
            /\ fCtx.timeout = ShutdownTimeout
            /\ ~CtxDone(fCtx))

\* a worker sends a batch it took off the queue after the token had fired
\* and the dispatcher had returned, the batch being the last of a full queue
C39_Witness ==
    /\ \E w \in Workers : wpc[w] = "sending" /\ wCtx[w].done
    /\ dpc = "exit"
    /\ chClosed
    /\ Len(metricsCh) = QueueCap - 1

\* the places of metric m in the slices passed to send calls
HandOvers(m) ==
    {<<i, k>> \in (1..Len(sentLog)) \X (1..MaxMetrics) :
        k <= Len(sentLog[i]) /\ sentLog[i][k] = m}

\* C38 (handed over once): every appended metric occurs at most once in the
\* slices passed to send calls by the workers and by the final send, and
\* exactly once when Start has returned; the batches in the pool, and so
\* every batch GetAndClear takes from it, are empty, as are the batches not
\* yet created.
C38_HandedOnce ==
    /\ \A m \in appended : Cardinality(HandOvers(m)) <= 1
    /\ mpc = "returned" => \A m \in appended : Cardinality(HandOvers(m)) = 1
    /\ \A b \in 1..MaxBatches : (b \in pool \/ b > allocated) => Item[b] = <<>>
    /\ \A i \in 1..Len(sentLog) : Range(sentLog[i]) \subseteq appended

\* Start has returned after more send calls than batch objects were ever
\* created, so a batch taken back from the pool was filled and sent again
C38_Witness ==
    /\ mpc = "returned"
    /\ Len(sentLog) > allocated
    /\ appended # {}

(***************************************************************************)
(* PACED AGENT: the agent when the poll interval equals the report         *)
(* interval and the system collector returns nothing: the poll sampler     *)
(* makes one Collect call per report cycle, right after the dispatcher's   *)
(* swap. Every behaviour of it is a behaviour of the agent; the workers    *)
(* and the sends are as slow as they like.                                 *)
(***************************************************************************)
\* the gauges Collect() returns: the metrics one report cycle samples
CycleVolume == 1

\* one cycle's samples in each of QueueCap queued batches, in a closed batch
\* merged back and in the open batch
BufferBound == (QueueCap + 2) * CycleVolume

\* metrics the poll sampler collects during one paced run
MaxPaced == BufferBound + 1

\* ticker case of the poll sampler, once in a report cycle: Collect()
\* returned a slice and Append took sm.mu
PacedCollect ==
    /\ UNCHANGED nonAgentVars
    /\ UNCHANGED <<fErr, failed>>
    /\ spc["poll"] = "select"
    /\ dpc = "got"
    /\ Item[cur] = <<>>
    /\ LockFree(mu)
    /\ nextId + CycleVolume - 1 <= MaxPaced
    /\ pend' = [pend EXCEPT !["poll"] = [i \in 1..CycleVolume |-> nextId + i - 1]]
    /\ nextId' = nextId + CycleVolume
    /\ mu' = "poll"
    /\ spc' = [spc EXCEPT !["poll"] = "append"]
    /\ UNCHANGED <<Item, allocated, pool, cur, metricsCh, chClosed, cancelled,
                   dpc, dBatch, dReturn, wpc, wBatch, wArg, mpc, fBatch,
                   appended, appendCalls, sentLog>>

PacedNext ==
    \/ PacedCollect
    \/ SamplerAppend("poll")
    \/ \E s \in Samplers : SamplerExit(s)
    \/ DispatchLock
    \/ DispatchSwap
    \/ DispatchEmpty
    \/ DispatchEnqueue
    \/ DispatchCancelled
    \/ DispatchBusy
    \/ DispatchMergeLock
    \/ DispatchMerge
    \/ DispatchPut
    \/ DispatchExit
    \/ \E w \in Workers : WorkerRecv(w)
    \/ \E w \in Workers : WorkerSendReturn(w)
    \/ \E w \in Workers : WorkerPut(w)
    \/ \E w \in Workers : WorkerExit(w)
    \/ MainLock
    \/ MainSwap
    \/ MainFinalSend
    \/ MainFinalReturn
    \/ MainPut
    \/ Cancel

(***************************************************************************)
(* PACED AGENT: claims.                                                    *)
(***************************************************************************)
\* metrics held in the open batch and in the queued batches
RECURSIVE QueuedCount(_)
QueuedCount(ch) ==
    IF ch = <<>> THEN 0 ELSE Len(Item[Head(ch)]) + QueuedCount(Tail(ch))

Buffered == Len(Item[cur]) + QueuedCount(metricsCh)

\* C32 as stated (bounded buffering): with CycleVolume metrics sampled
\* per report cycle, the open batch and the queue together never hold more
\* than (QueueCap + 2) * CycleVolume metrics.
C32_Original == Buffered <= BufferBound

\* the samples handed to the sender, in the order of the send calls and of
\* the slices passed to them
RECURSIVE Flatten(_)
Flatten(log) == IF log = <<>> THEN <<>> ELSE Head(log) \o Flatten(Tail(log))

Stream == Flatten(sentLog)

\* every Collect() call returns the same CycleVolume gauges in the same
\* order; samples are numbered in the order they were collected
GaugeOf(m) == (m - 1) % CycleVolume

\* C34 as stated (gauge freshness): while the token has not fired, for every
\* gauge the sample that comes last in the stream handed to the sender is the
\* most recently collected one among the samples of that gauge in the stream.
C34_Original ==
    ~cancelled =>
        \A i \in 1..Len(Stream) :
            LET same == {j \in 1..Len(Stream) :
                            GaugeOf(Stream[j]) = GaugeOf(Stream[i])}
                last == CHOOSE j \in same : \A k \in same : k <= j
            IN  Stream[last] >= Stream[i]

(***************************************************************************)
(* CONCURRENT STORAGE: NumCallers goroutines, each running Iterations      *)
(* times UpsertCounter(id, delta) and GetCounter(id) on one id. A method   *)
(* takes m.mu, runs its body and releases it; `+=` is a load and a store.  *)
(***************************************************************************)
Callers == 1..NumCallers
ConcId == "PollCount"
ConcDeltas == {-1, 2}

\* mutant: Lock does not wait for the mutex
MayLock_NoWait(writer, readers) == TRUE

\* sync.RWMutex.Lock returns once no goroutine holds the mutex
MayLock(writer, readers) == writer = 0 /\ readers = {}

\* mutant: RLock does not wait for a writer
MayRLock_NoWait(writer) == TRUE

\* sync.RWMutex.RLock returns once no goroutine holds it for writing
MayRLock(writer) == writer = 0

\* v, ok := m[name]
MapLookup(m, name) == IF name \in DOMAIN m THEN <<m[name], TRUE>> ELSE <<0, FALSE>>

\* m[name] = v
MapStore(m, name, v) == [k \in DOMAIN m \cup {name} |-> IF k = name THEN v ELSE m[k]]

\* no goroutines
ConcIdle ==
    /\ kCounters = <<>>
    /\ kMu = 0
    /\ kReaders = {}
    /\ kpc = <<>>
    /\ kTmp = <<>>
    /\ kIter = <<>>
    /\ kDelta = <<>>
    /\ kGot = <<>>
    /\ kSum = 0
    /\ kCount = -1

\* New(), and the goroutines started with their deltas
ConcInit ==
    /\ kCounters = <<>>
    /\ kMu = 0
    /\ kReaders = {}
    /\ kpc = [c \in Callers |-> "upsert"]
    /\ kTmp = [c \in Callers |-> 0]
    /\ kIter = [c \in Callers |-> 0]
    /\ kDelta \in [Callers -> ConcDeltas]
    /\ kGot = [c \in Callers |-> <<0, FALSE>>]
    /\ kSum = 0
    /\ kCount = 0

\* UpsertCounter: m.mu.Lock()
UpsertLock(c) ==
    /\ UNCHANGED nonConcVars
    /\ kpc[c] = "upsert"
    /\ MayLock(kMu, kReaders)
    /\ kMu' = c
    /\ kpc' = [kpc EXCEPT ![c] = "load"]
    /\ UNCHANGED <<kCounters, kReaders, kTmp, kIter, kDelta, kGot, kSum, kCount>>

\* UpsertCounter: the load of m.counters[id] += delta
UpsertLoad(c) ==
    /\ UNCHANGED nonConcVars
    /\ kpc[c] = "load"
    /\ kTmp' = [kTmp EXCEPT ![c] = MapLookup(kCounters, ConcId)[1]]
    /\ kpc' = [kpc EXCEPT ![c] = "store"]
    /\ UNCHANGED <<kCounters, kMu, kReaders, kIter, kDelta, kGot, kSum, kCount>>

\* UpsertCounter: the store of m.counters[id] += delta
UpsertStore(c) ==
    /\ UNCHANGED nonConcVars
    /\ kpc[c] = "store"
    /\ kCounters' = MapStore(kCounters, ConcId, kTmp[c] + kDelta[c])
    /\ kSum' = kSum + kDelta[c]
    /\ kCount' = kCount + 1
    /\ kpc' = [kpc EXCEPT ![c] = "unlock"]
    /\ UNCHANGED <<kMu, kReaders, kTmp, kIter, kDelta, kGot>>

\* UpsertCounter: the deferred m.mu.Unlock(), and return nil
UpsertUnlock(c) ==
    /\ UNCHANGED nonConcVars
    /\ kpc[c] = "unlock"
    /\ kMu' = 0
    /\ kpc' = [kpc EXCEPT ![c] = "get"]
    /\ UNCHANGED <<kCounters, kReaders, kTmp, kIter, kDelta, kGot, kSum, kCount>>

\* GetCounter: m.mu.RLock()
GetRLock(c) ==
    /\ UNCHANGED nonConcVars
    /\ kpc[c] = "get"
    /\ MayRLock(kMu)
    /\ kReaders' = kReaders \cup {c}
    /\ kpc' = [kpc EXCEPT ![c] = "read"]
    /\ UNCHANGED <<kCounters, kMu, kTmp, kIter, kDelta, kGot, kSum, kCount>>

\* GetCounter: v, ok := m.counters[name]
GetRead(c) ==
    /\ UNCHANGED nonConcVars
    /\ kpc[c] = "read"
    /\ kGot' = [kGot EXCEPT ![c] = MapLookup(kCounters, ConcId)]
    /\ kpc' = [kpc EXCEPT ![c] = "runlock"]
    /\ UNCHANGED <<kCounters, kMu, kReaders, kTmp, kIter, kDelta, kSum, kCount>>

\* GetCounter: the deferred m.mu.RUnlock(), return, and the loop's j++
GetRUnlock(c) ==
    /\ UNCHANGED nonConcVars
    /\ kpc[c] = "runlock"
    /\ kReaders' = kReaders \ {c}
    /\ kIter' = [kIter EXCEPT ![c] = @ + 1]
    /\ kpc' = [kpc EXCEPT ![c] = IF kIter[c] + 1 < Iterations THEN "upsert" ELSE "done"]
    /\ UNCHANGED <<kCounters, kMu, kTmp, kDelta, kGot, kSum, kCount>>

ConcNext ==
    \E c \in Callers :
        \/ UpsertLock(c)
        \/ UpsertLoad(c)
        \/ UpsertStore(c)
        \/ UpsertUnlock(c)
        \/ GetRLock(c)
        \/ GetRead(c)
        \/ GetRUnlock(c)

(***************************************************************************)
(* CONCURRENT STORAGE: claims.                                             *)
(***************************************************************************)
\* every goroutine has finished its loop
AllDone == \A c \in Callers : kpc[c] = "done"

\* the sum of f over the goroutines 1..n
RECURSIVE SumTo(_, _)
SumTo(f, n) == IF n = 0 THEN 0 ELSE f[n] + SumTo(f, n - 1)

\* C21: concurrent UpsertCounter calls on one id, interleaved with
\* GetCounter calls, lose no update: the stored value is always the sum of
\* the deltas stored so far, and once every goroutine has finished it is the
\* sum of all deltas, Iterations times each.
C21_NoLostUpdate ==
    /\ kCount = 0 => MapLookup(kCounters, ConcId) = <<0, FALSE>>
    /\ kCount >= 1 => MapLookup(kCounters, ConcId) = <<kSum, TRUE>>
    /\ AllDone =>
          /\ kCount = NumCallers * Iterations
          /\ MapLookup(kCounters, ConcId) =
                <<Iterations * SumTo(kDelta, NumCallers), TRUE>>

\* all goroutines are done, one applied a negative delta, and one's
\* GetCounter saw a value that was not the final one
C21_Witness ==
    /\ AllDone
    /\ \E c \in Callers : kDelta[c] < 0
    /\ \E c \in Callers : kGot[c] # MapLookup(kCounters, ConcId)

(***************************************************************************)
(* CONCURRENT BATCH: goroutine 1 calls UpdateMetricsBatch with             *)
(* MaxBatchLen counter entries on one id while the other goroutines run    *)
(* their loop of UpsertCounter and GetCounter on that id. GetAll holds the *)
(* read lock over its copy loops as GetCounter does over its lookup.       *)
(***************************************************************************)
\* the goroutine that calls UpdateMetricsBatch: the first one
BatchCaller == CHOOSE c \in Callers : \A d \in Callers : c <= d

\* New(), and the goroutines started
ConcBatchInit ==
    /\ kCounters = <<>>
    /\ kMu = 0
    /\ kReaders = {}
    /\ kpc = [c \in Callers |-> IF c = BatchCaller THEN "batch" ELSE "upsert"]
    /\ kTmp = [c \in Callers |-> 0]
    /\ kIter = [c \in Callers |-> 0]
    /\ kDelta \in [Callers -> ConcDeltas]
    /\ kGot = [c \in Callers |-> <<0, FALSE>>]
    /\ kSum = 0
    /\ kCount = 0

\* UpdateMetricsBatch: m.mu.Lock()
BatchLock(c) ==
    /\ UNCHANGED nonConcVars
    /\ kpc[c] = "batch"
    /\ MayLock(kMu, kReaders)
    /\ kMu' = c
    /\ kpc' = [kpc EXCEPT ![c] = "entry"]
    /\ UNCHANGED <<kCounters, kReaders, kTmp, kIter, kDelta, kGot, kSum, kCount>>

\* UpdateMetricsBatch: one iteration of the loop over metrics,
\* m.counters[metric.ID] += *metric.Delta; kIter counts the entries applied
BatchEntry(c) ==
    /\ UNCHANGED nonConcVars
    /\ kpc[c] = "entry"
    /\ kIter[c] < MaxBatchLen
    /\ kCounters' = MapStore(kCounters, ConcId,
                             MapLookup(kCounters, ConcId)[1] + kDelta[c])
    /\ kSum' = kSum + kDelta[c]
    /\ kCount' = kCount + 1
    /\ kIter' = [kIter EXCEPT ![c] = @ + 1]
    /\ UNCHANGED <<kMu, kReaders, kpc, kTmp, kDelta, kGot>>

\* UpdateMetricsBatch: the loop is over; the deferred m.mu.Unlock()
BatchUnlock(c) ==
    /\ UNCHANGED nonConcVars
    /\ kpc[c] = "entry"
    /\ kIter[c] = MaxBatchLen
    /\ kMu' = 0
    /\ kpc' = [kpc EXCEPT ![c] = "done"]
    /\ UNCHANGED <<kCounters, kReaders, kTmp, kIter, kDelta, kGot, kSum, kCount>>

ConcBatchNext ==
    \E c \in Callers :
        \/ BatchLock(c)
        \/ BatchEntry(c)
        \/ BatchUnlock(c)
        \/ UpsertLock(c)
        \/ UpsertLoad(c)
        \/ UpsertStore(c)
        \/ UpsertUnlock(c)
        \/ GetRLock(c)
        \/ GetRead(c)
        \/ GetRUnlock(c)

(***************************************************************************)
(* CONCURRENT BATCH: claims.                                               *)
(***************************************************************************)
\* some entries of the batch are applied and some are not
MidBatch ==
    kpc[BatchCaller] = "entry" /\ kIter[BatchCaller] \in 1..(MaxBatchLen - 1)

\* C36 (atomic batch): a reader that has made its lookup and still holds the
\* read lock has got the stored value, and that value is not one of a
\* half-applied batch; while the batch is half applied no other goroutine is
\* inside UpsertCounter between its load and its unlock, and the stored value
\* is what the whole calls before it and the entries applied so far add up to.
C36_BatchAtomic ==
    /\ \A c \in Callers :
          kpc[c] = "runlock" =>
              /\ kGot[c] = MapLookup(kCounters, ConcId)
              /\ ~MidBatch
    /\ MidBatch =>
          /\ \A c \in Callers : kpc[c] \notin {"load", "store", "unlock", "read", "runlock"}
          /\ kMu = BatchCaller
    /\ kCount >= 1 => MapLookup(kCounters, ConcId) = <<kSum, TRUE>>

\* the batch is half applied on top of another goroutine's write, and that
\* goroutine waits for the read lock with its GetCounter
C36_Witness ==
    /\ MidBatch
    /\ kCount >= 2
    /\ \E c \in Callers \ {BatchCaller} : kpc[c] = "get"

(***************************************************************************)
(* REQUESTS: the requests of sendBatch, sendJSON and sendText as functions *)
(* of the sender's HashKey and of what is sent. A key is the sequence of   *)
(* its bytes. SHA-256 is taken to be free of collisions: a digest is the   *)
(* term of what was hashed. A header value is a sequence.                  *)
(***************************************************************************)
\* the keys a sender is configured with: none, "k", "k" followed by a zero
\* byte, and "q"
ReqKeys == {<<>>, <<107>>, <<107, 0>>, <<113>>}

\* the metrics sent, all valid, and one of a type sendText does not know
ReqMetrics ==
    { [ID |-> "Alloc", MType |-> "gauge", Delta |-> <<>>, Value |-> <<10>>],
      [ID |-> "PollCount", MType |-> "counter", Delta |-> <<1>>, Value |-> <<>>],
      [ID |-> "PollCount", MType |-> "counter", Delta |-> <<2>>, Value |-> <<>>],
      [ID |-> "Alloc", MType |-> "histogram", Delta |-> <<>>, Value |-> <<10>>] }

\* the slices sendBatch is given
ReqBatches == {<<>>} \cup {<<m>> : m \in ReqMetrics}

\* the block size of SHA-256, in bytes
BlockSize == 64

\* hmac.New: a key longer than a block is replaced by its digest, and the
\* key is copied into a block of zero bytes
PadKey(key) ==
    LET k == IF Len(key) > BlockSize THEN <<<<"sha256", key>>>> ELSE key IN
    [i \in 1..BlockSize |-> IF i <= Len(k) THEN k[i] ELSE 0]

\* mutant: the digest does not depend on the key
HMAC_NoKey(key, b) == <<"hmac-sha256", <<>>, b>>

\* hmac.New(sha256.New, key); h.Write(b); h.Sum(nil)
HMAC(key, b) == <<"hmac-sha256", PadKey(key), b>>

\* mutant: the tag is computed whatever the key
CalculateHash256_AnyKey(key, b) == <<"hex", HMAC(key, b)>>

\* calculateHash256: "" (here <<>>) without a key, else the digest in hex
CalculateHash256(key, b) == IF key = <<>> THEN <<>> ELSE <<"hex", HMAC(key, b)>>

\* json.Marshal followed by gzip
GzipJSON(v) == <<"gzip", <<"json", v>>>>

\* json.Marshal of a slice followed by gzip
GzipJSONList(v) == <<"gzip", <<"json", "list", v>>>>

\* strconv.FormatInt / strconv.FormatFloat of sendText's switch, <<>> for an
\* unsupported type
TextValue(metric) ==
    IF metric.MType = "counter" THEN <<"str", metric.Delta[1]>>
    ELSE IF metric.MType = "gauge" THEN <<"str", metric.Value[1]>>
    ELSE <<>>

\* fmt.Sprintf("%s:%s:%s", metric.MType, metric.ID, valueStr)
TextData(metric) == <<metric.MType, ":", metric.ID, ":", TextValue(metric)>>

\* the headers of a request: the fixed ones, and HashSHA256 when
\* calculateHash256 returned a tag
WithHash(fixed, key, signed) ==
    LET hash == CalculateHash256(key, signed) IN
    IF hash # <<>> THEN fixed \cup {<<"HashSHA256", hash>>} ELSE fixed

NoReq == [kind |-> "none", path |-> <<>>, body |-> <<>>, headers |-> {},
          signed |-> <<>>, key |-> <<>>]

\* the request of sendBatch(metrics); key and signed are history: the key
\* in use and the bytes given to calculateHash256
BatchRequest(key, metrics) ==
    [kind |-> "batch", path |-> <<"updates">>, body |-> GzipJSONList(metrics),
     headers |-> WithHash({<<"Content-Type", <<"application/json">>>>,
                           <<"Content-Encoding", <<"gzip">>>>}, key,
                          GzipJSONList(metrics)),
     signed |-> GzipJSONList(metrics), key |-> key]

\* the request of sendJSON(gzip of the metric's JSON)
JSONRequest(key, metric) ==
    [kind |-> "json", path |-> <<"update">>, body |-> GzipJSON(metric),
     headers |-> WithHash({<<"Content-Type", <<"application/json">>>>,
                           <<"Content-Encoding", <<"gzip">>>>}, key, GzipJSON(metric)),
     signed |-> GzipJSON(metric), key |-> key]

\* the request of sendText(metric)
TextRequest(key, metric) ==
    [kind |-> "text",
     path |-> <<"update", metric.MType, metric.ID, TextValue(metric)>>,
     body |-> <<>>,
     headers |-> WithHash({<<"Content-Type", <<"text/plain">>>>}, key, TextData(metric)),
     signed |-> TextData(metric), key |-> key]

\* no sender
ReqIdle ==
    /\ qKey = <<>>
    /\ qReq = <<>>
    /\ qPrev = <<>>

\* a sender, its key any of ReqKeys, that has sent nothing
ReqInit ==
    /\ qKey \in ReqKeys
    /\ qReq = NoReq
    /\ qPrev = NoReq

\* NewHTTPSender(serverURL, HashKey): another sender takes over
NewHTTPSender(key) ==
    /\ UNCHANGED nonReqVars
    /\ qReq # <<>>
    /\ qKey' = key
    /\ UNCHANGED <<qReq, qPrev>>

\* sendBatch up to req.Post
SendBatchRequest(metrics) ==
    /\ UNCHANGED nonReqVars
    /\ qReq # <<>>
    /\ qReq' = BatchRequest(qKey, metrics)
    /\ qPrev' = qReq
    /\ UNCHANGED qKey

\* sendJSON up to req.Post
SendJSONRequest(metric) ==
    /\ UNCHANGED nonReqVars
    /\ qReq # <<>>
    /\ qReq' = JSONRequest(qKey, metric)
    /\ qPrev' = qReq
    /\ UNCHANGED qKey

\* sendText up to req.Post; an unsupported type returns before any request
SendTextRequest(metric) ==
    /\ UNCHANGED nonReqVars
    /\ qReq # <<>>
    /\ IF TextValue(metric) = <<>>
       THEN UNCHANGED <<qReq, qPrev>>
       ELSE /\ qReq' = TextRequest(qKey, metric)
            /\ qPrev' = qReq
    /\ UNCHANGED qKey

ReqNext ==
    \/ \E key \in ReqKeys : NewHTTPSender(key)
    \/ \E metrics \in ReqBatches : SendBatchRequest(metrics)
    \/ \E metric \in ReqMetrics : SendJSONRequest(metric)
    \/ \E metric \in ReqMetrics : SendTextRequest(metric)

(***************************************************************************)
(* REQUESTS: claims.                                                       *)
(***************************************************************************)
\* the requests issued so far
Issued == {qReq, qPrev} \ {NoReq}

\* the HashSHA256 header values of a request: at most one
Tags(req) == {h[2] : h \in {x \in req.headers : x[1] = "HashSHA256"}}

\* C22: every request issued, batch, single-item JSON or text, carries a
\* HashSHA256 header if and only if the sender's key is not empty.
C22_HashHeaderIffKey ==
    \A req \in Issued : (Tags(req) # {}) <=> (req.key # <<>>)

\* a text request with the header under a key, after a batch request
\* without it under no key
C22_Witness ==
    /\ qReq.kind = "text" /\ qReq.key # <<>> /\ Tags(qReq) # {}
    /\ qPrev.kind = "batch" /\ qPrev.key = <<>> /\ Tags(qPrev) = {}

\* two requests that gave the same bytes to calculateHash256, both under a key
SamePayload(a, b) == a.signed = b.signed /\ a.key # <<>> /\ b.key # <<>>

Gunzip(body) == body[2]

\* the header values of a request under a name
HeaderValues(req, name) == {h[2] : h \in {x \in req.headers : x[1] = name}}

\* middleware.GzipDecompression, the first middleware of NewRouter: under
\* Content-Encoding gzip the header is deleted and a body that is not empty
\* is replaced by its decompression
GzipDecompression(req) ==
    IF <<"gzip">> \in HeaderValues(req, "Content-Encoding")
    THEN [req EXCEPT !.headers = {x \in @ : x[1] # "Content-Encoding"},
                     !.body = IF @ = <<>> THEN <<>> ELSE Gunzip(@)]
    ELSE req

\* HashMiddleware.ComputeHash(body) under the collector's key
ComputeHash(key, body) == <<"hex", HMAC(key, body)>>

\* the request as CheckHash receives it: NewRouter puts CheckHash after
\* GzipDecompression (the decryption middleware is off, and logging, response
\* compression and audit leave the request's body alone)
Received(req) == GzipDecompression(req)

\* the tags CheckHash computes for a request: none without a key or without
\* an incoming HashSHA256 header, else the one over the body it reads
ComputedTags(key, req) ==
    IF key = <<>> \/ Tags(Received(req)) = {} THEN {}
    ELSE {ComputeHash(key, Received(req).body)}

\* C40 as stated: with the same non-empty key on both sides, for every
\* request issued (batch, single-item JSON, text) the tag CheckHash computes
\* over the body it receives is the request's HashSHA256 header.
C40_Original ==
    \A req \in Issued :
        req.key # <<>> => ComputedTags(req.key, req) = Tags(req)

\* the same for the requests of one format
C40_Batch == qReq.kind = "batch" /\ qReq.key # <<>> => ComputedTags(qReq.key, qReq) = Tags(qReq)
C40_JSON == qReq.kind = "json" /\ qReq.key # <<>> => ComputedTags(qReq.key, qReq) = Tags(qReq)
C40_Text == qReq.kind = "text" /\ qReq.key # <<>> => ComputedTags(qReq.key, qReq) = Tags(qReq)

\* what does hold: the computed tag is the header exactly when the collector
\* hashes the bytes the sender gave to calculateHash256
C40_TagOfSigned ==
    \A req \in Issued :
        req.key # <<>> =>
            /\ Tags(req) = {ComputeHash(req.key, req.signed)}
            /\ (ComputedTags(req.key, req) = Tags(req)) <=> (Received(req).body = req.signed)

(***************************************************************************)
(* BOTH BACKENDS: each call is made to the two storages. No statement of   *)
(* the durable one fails, so a call of it is the one attempt of Retry: a   *)
(* single statement, or every statement of the batch and the commit.       *)
(***************************************************************************)
BothIds == {"Alloc", "PollCount"}

\* the entries of the batches, value fields present: both kinds on both
\* ids, and a type neither switch knows
BothEntries ==
    { [ID |-> id, MType |-> "gauge", Delta |-> <<>>, Value |-> <<10>>] : id \in BothIds }
    \cup { [ID |-> id, MType |-> "counter", Delta |-> <<1>>, Value |-> <<>>] :
              id \in BothIds }
    \cup { [ID |-> "Alloc", MType |-> "gauge", Delta |-> <<>>, Value |-> <<20>>],
            [ID |-> "Alloc", MType |-> "histogram", Delta |-> <<>>, Value |-> <<10>>] }

BothBatches == UNION {[1..n -> BothEntries] : n \in 0..MaxBatchLen}

\* the memory side of what the other parts leave alone
memRest == <<memOps, gLast, gSeen, cSum, cCount, cVia, gs, cs, held, memReads, mRet, mLast>>

\* the durable side of what the other parts leave alone
pgRest == <<pTx, pCall, ppc, pAttempt, pStmt, pSelDone, pCtxDone, pFaults, pResult,
            pCalls, pBefore, pLastFail, pTries>>

nonBothVars == <<agentVars, retryVars, sendVars, clsVars, concVars, reqVars, memRest, pgRest,
                 pairVars, ctxVars>>

\* PostgresStorage.GetGauge: SELECT value ... WHERE mtype = 'gauge' AND id = $2
\* AND value IS NOT NULL
PgGetGauge(rows, id) ==
    IF rows[id].mtype = "gauge" /\ rows[id].value # <<>>
    THEN <<rows[id].value[1], TRUE>> ELSE <<0, FALSE>>

\* PostgresStorage.GetCounter: SELECT delta ... WHERE mtype = 'counter' AND
\* id = $2 AND delta IS NOT NULL
PgGetCounter(rows, id) ==
    IF rows[id].mtype = "counter" /\ rows[id].delta # <<>>
    THEN <<rows[id].delta[1], TRUE>> ELSE <<0, FALSE>>

\* PostgresStorage.GetAll: the two maps filled from the two SELECTs
PgGetAll(rows) ==
    <<[id \in {i \in DOMAIN rows : PgGetGauge(rows, i)[2]} |-> rows[id].value[1]],
      [id \in {i \in DOMAIN rows : PgGetCounter(rows, i)[2]} |-> rows[id].delta[1]]>>

\* history: the kinds a batch writes id with
BatchKinds(id, metrics) ==
    {metrics[i].MType : i \in {j \in 1..Len(metrics) :
                                  metrics[j].ID = id /\ HasStmt(metrics[j])}}

\* no pair of storages in use
BothIdle ==
    /\ bOps = -1
    /\ bKinds = <<>>

\* New() and a PostgresStorage on an empty table
BothInit ==
    /\ bOps = 0
    /\ bKinds = [id \in BothIds |-> {}]

\* UpsertGauge(ctx, id, value) on both
BothUpsertGauge(id, value) ==
    /\ UNCHANGED nonBothVars
    /\ bOps >= 0 /\ bOps < MaxOps
    /\ bOps' = bOps + 1
    /\ gauges' = GaugeSet(gauges, id, value)
    /\ UNCHANGED counters
    /\ pgRows' = ExecStmt(pgRows, "gauge", id, value)
    /\ bKinds' = [bKinds EXCEPT ![id] = @ \cup {"gauge"}]

\* UpsertCounter(ctx, id, delta) on both
BothUpsertCounter(id, delta) ==
    /\ UNCHANGED nonBothVars
    /\ bOps >= 0 /\ bOps < MaxOps
    /\ bOps' = bOps + 1
    /\ counters' = CounterAdd(counters, id, delta)
    /\ UNCHANGED gauges
    /\ pgRows' = ExecStmt(pgRows, "counter", id, delta)
    /\ bKinds' = [bKinds EXCEPT ![id] = @ \cup {"counter"}]

\* UpdateMetricsBatch(ctx, metrics) on both
BothUpdateMetricsBatch(metrics) ==
    /\ UNCHANGED nonBothVars
    /\ bOps >= 0 /\ bOps < MaxOps
    /\ bOps' = bOps + 1
    /\ LET st == ApplyBatch([g |-> gauges, c |-> counters], metrics) IN
          /\ gauges' = st.g
          /\ counters' = st.c
    /\ pgRows' = ApplyAll(pgRows, metrics)
    /\ bKinds' = [id \in BothIds |-> bKinds[id] \cup BatchKinds(id, metrics)]

BothNext ==
    \/ \E id \in BothIds, v \in GaugeValues : BothUpsertGauge(id, v)
    \/ \E id \in BothIds, d \in CounterDeltas : BothUpsertCounter(id, d)
    \/ \E metrics \in BothBatches : BothUpdateMetricsBatch(metrics)

(***************************************************************************)
(* BOTH BACKENDS: claims.                                                  *)
(***************************************************************************)
\* every id has been written with one kind at most
SingleKind == \A id \in BothIds : Cardinality(bKinds[id]) <= 1

\* C24: after any sequence of UpsertGauge, UpsertCounter and
\* UpdateMetricsBatch calls with value fields present, in which every id is
\* used with a single kind and no statement fails, GetGauge, GetCounter and
\* GetAll return the same on the in-memory and on the durable storage.
C24_BackendsAgree ==
    SingleKind =>
        /\ \A id \in BothIds :
              /\ GetGauge(id) = PgGetGauge(pgRows, id)
              /\ GetCounter(id) = PgGetCounter(pgRows, id)
        /\ GetAll = PgGetAll(pgRows)

\* after MaxOps calls, a batch among them, one id holds a gauge and the
\* other a counter that is the sum of two deltas or more
C24_Witness ==
    /\ SingleKind
    /\ bOps = MaxOps
    /\ \E id \in BothIds : GetGauge(id)[2] /\ PgGetGauge(pgRows, id)[2]
    /\ \E id \in BothIds :
          /\ PgGetCounter(pgRows, id)[2]
          /\ PgGetCounter(pgRows, id)[1] \notin CounterDeltas
    /\ GetAll = PgGetAll(pgRows)

\* the kinds under which a backend's getters find id
MemKinds(id) ==
    (IF GetGauge(id)[2] THEN {"gauge"} ELSE {})
        \cup (IF GetCounter(id)[2] THEN {"counter"} ELSE {})

PgKinds(id) ==
    (IF PgGetGauge(pgRows, id)[2] THEN {"gauge"} ELSE {})
        \cup (IF PgGetCounter(pgRows, id)[2] THEN {"counter"} ELSE {})

\* C35 as stated (one value per id): on either backend GetGauge(id) and
\* GetCounter(id) never both report found, an id that has been written is
\* readable under one kind, and while it has been written with one kind only
\* that is the kind.
C35_Original ==
    \A id \in BothIds :
        /\ Cardinality(MemKinds(id)) <= 1
        /\ Cardinality(PgKinds(id)) <= 1
        /\ bKinds[id] # {} =>
              /\ Cardinality(MemKinds(id)) = 1 /\ MemKinds(id) \subseteq bKinds[id]
              /\ Cardinality(PgKinds(id)) = 1 /\ PgKinds(id) \subseteq bKinds[id]

\* the in-memory part of C35 as stated, which fails by the two maps
C35_Memory == \A id \in BothIds : Cardinality(MemKinds(id)) <= 1

\* the durable part of C35 as stated, which fails by the unchanged mtype
C35_Durable ==
    \A id \in BothIds :
        /\ Cardinality(PgKinds(id)) <= 1
        /\ bKinds[id] # {} => Cardinality(PgKinds(id)) = 1

(***************************************************************************)
(* BOTH ENGINES: the two Retry methods run on the same operation results   *)
(* under a context cancelled at the same moment. An invocation takes no    *)
(* time; a wait takes its delay in seconds. The context is cancelled       *)
(* between two whole seconds, so it never ties with a timer.               *)
(***************************************************************************)
\* the moments of cancellation: -1 is before the call, Horizon after both
\* calls have returned
CancelMoments == -1..Horizon

\* ctx.Done() is closed at second `clock`
CtxDoneAt(clock) == xCancelAt < clock

nonPairVars == <<agentVars, retryVars, memVars, sendVars, pgVars, clsVars, concVars, reqVars,
                 bothVars, ctxVars>>

\* no pair of Retry calls
PairIdle ==
    /\ xScript = <<>>
    /\ xCancelAt = 0
    /\ xpc = <<>>
    /\ xAttempt = <<>>
    /\ xCalls = <<>>
    /\ xClock = <<>>
    /\ xWaited = <<>>
    /\ xOutcome = <<>>

\* both Retry methods are called
PairInit ==
    /\ xScript \in [1..(MaxAttempts + 1) -> OpResults]
    /\ xCancelAt \in CancelMoments
    /\ xpc = [e \in Engines |-> "call"]
    /\ xAttempt = [e \in Engines |-> 0]
    /\ xCalls = [e \in Engines |-> 0]
    /\ xClock = [e \in Engines |-> 0]
    /\ xWaited = [e \in Engines |-> <<>>]
    /\ xOutcome = [e \in Engines |-> "none"]

\* one loop iteration of engine e up to its select
PairAttempt(e) ==
    /\ UNCHANGED nonPairVars
    /\ xpc[e] = "call"
    /\ MoreAttempts(xAttempt[e])
    /\ xCalls' = [xCalls EXCEPT ![e] = @ + 1]
    /\ LET err == xScript[xCalls[e] + 1] IN
          IF err = "ok"
          THEN /\ xpc' = [xpc EXCEPT ![e] = "done"]
               /\ xOutcome' = [xOutcome EXCEPT ![e] = "nil"]
               /\ UNCHANGED xAttempt
          ELSE IF ~IsRetriable(err)
          THEN /\ xpc' = [xpc EXCEPT ![e] = "done"]
               /\ xOutcome' = [xOutcome EXCEPT ![e] = "nonretriable"]
               /\ UNCHANGED xAttempt
          ELSE IF EntersSelect(e, xAttempt[e])
          THEN /\ xpc' = [xpc EXCEPT ![e] = "select"]
               /\ UNCHANGED <<xAttempt, xOutcome>>
          ELSE /\ xAttempt' = [xAttempt EXCEPT ![e] = @ + 1]
               /\ UNCHANGED <<xpc, xOutcome>>
    /\ UNCHANGED <<xScript, xCancelAt, xClock, xWaited>>

\* case <-ctx.Done() of engine e: the context is cancelled before the timer
\* fires
PairCtxDone(e) ==
    /\ UNCHANGED nonPairVars
    /\ xpc[e] = "select"
    /\ CtxDoneAt(xClock[e] + DelayOf(e, xAttempt[e]))
    /\ xpc' = [xpc EXCEPT ![e] = "done"]
    /\ xOutcome' = [xOutcome EXCEPT ![e] = "cancelled"]
    /\ UNCHANGED <<xScript, xCancelAt, xAttempt, xCalls, xClock, xWaited>>

\* case <-time.After(delay) of engine e: the delay passes first
PairTimer(e) ==
    /\ UNCHANGED nonPairVars
    /\ xpc[e] = "select"
    /\ TimerMayFire(CtxDoneAt(xClock[e]))
    /\ ~CtxDoneAt(xClock[e] + DelayOf(e, xAttempt[e]))
    /\ xWaited' = [xWaited EXCEPT ![e] = Append(@, DelayOf(e, xAttempt[e]))]
    /\ xClock' = [xClock EXCEPT ![e] = @ + DelayOf(e, xAttempt[e])]
    /\ xAttempt' = [xAttempt EXCEPT ![e] = @ + 1]
    /\ xpc' = [xpc EXCEPT ![e] = "call"]
    /\ UNCHANGED <<xScript, xCancelAt, xCalls, xOutcome>>

\* the loop of engine e ends: the "all attempts failed" error
PairExhausted(e) ==
    /\ UNCHANGED nonPairVars
    /\ xpc[e] = "call"
    /\ ~MoreAttempts(xAttempt[e])
    /\ xpc' = [xpc EXCEPT ![e] = "done"]
    /\ xOutcome' = [xOutcome EXCEPT ![e] = "exhausted"]
    /\ UNCHANGED <<xScript, xCancelAt, xAttempt, xCalls, xClock, xWaited>>

PairNext ==
    \E e \in Engines :
        \/ PairAttempt(e)
        \/ PairCtxDone(e)
        \/ PairTimer(e)
        \/ PairExhausted(e)

(***************************************************************************)
(* BOTH ENGINES: claims.                                                   *)
(***************************************************************************)
\* C26 as stated: for the same operation results and the same moment of
\* cancellation, once both Retry methods have returned they have invoked the
\* operation as often, waited the same delays and returned the same kind of
\* outcome.
C26_Original ==
    (\A e \in Engines : xpc[e] = "done") =>
        /\ xCalls["http"] = xCalls["postgres"]
        /\ xWaited["http"] = xWaited["postgres"]
        /\ xOutcome["http"] = xOutcome["postgres"]

(***************************************************************************)
(* Specifications: one per part; the other parts stay idle.                *)
(***************************************************************************)
\* the agent's dispatch loop
Init == AgentInit /\ RetryIdle /\ MemIdle /\ SendIdle /\ PgIdle /\ ClsIdle /\ ConcIdle /\ ReqIdle
    /\ BothIdle /\ PairIdle /\ CtxIdle
Spec == Init /\ [][AgentNext]_vars

SpecFair == Init /\ [][AgentNext]_vars /\ AgentFairness

InitCtx == AgentInit /\ RetryIdle /\ MemIdle /\ SendIdle /\ PgIdle /\ ClsIdle /\ ConcIdle /\ ReqIdle
    /\ BothIdle /\ PairIdle /\ CtxInit
SpecCtx == InitCtx /\ [][CtxNext]_vars

\* one Retry call of either engine
InitRetry == AgentInit /\ RetryInit /\ MemIdle /\ SendIdle /\ PgIdle /\ ClsIdle /\ ConcIdle /\ ReqIdle
    /\ BothIdle /\ PairIdle /\ CtxIdle
SpecRetry == InitRetry /\ [][RetryNext]_vars

\* one in-memory storage under any sequence of write calls
InitMem == AgentInit /\ RetryIdle /\ MemInit /\ SendIdle /\ PgIdle /\ ClsIdle /\ ConcIdle /\ ReqIdle
    /\ BothIdle /\ PairIdle /\ CtxIdle
SpecMem == InitMem /\ [][MemNext]_vars

\* one in-memory storage read through GetAll between single writes
SpecMemRead == InitMem /\ [][MemReadNext]_vars

\* one SendMetrics call against a server with fixed answers
InitSend == AgentInit /\ RetryIdle /\ MemIdle /\ SendInit /\ PgIdle /\ ClsIdle /\ ConcIdle /\ ReqIdle
    /\ BothIdle /\ PairIdle /\ CtxIdle
SpecSend == InitSend /\ [][SendNext]_vars

SpecPaced == Init /\ [][PacedNext]_vars

InitFan == AgentInit /\ RetryIdle /\ MemIdle /\ FanInit /\ PgIdle /\ ClsIdle /\ ConcIdle /\ ReqIdle
    /\ BothIdle /\ PairIdle /\ CtxIdle
SpecFan == InitFan /\ [][SendNext]_vars

\* a client of the durable storage, and a database that may fail
InitPg == AgentInit /\ RetryIdle /\ MemIdle /\ SendIdle /\ PgInit /\ ClsIdle /\ ConcIdle /\ ReqIdle
    /\ BothIdle /\ PairIdle /\ CtxIdle
SpecPg == InitPg /\ [][PgNext]_vars

\* both classifiers applied to any arguments
InitCls == AgentInit /\ RetryIdle /\ MemIdle /\ SendIdle /\ PgIdle /\ ClsInit /\ ConcIdle /\ ReqIdle
    /\ BothIdle /\ PairIdle /\ CtxIdle
SpecCls == InitCls /\ [][ClsNext]_vars

\* goroutines upserting and reading one counter of one in-memory storage
InitConc == AgentInit /\ RetryIdle /\ MemIdle /\ SendIdle /\ PgIdle /\ ClsIdle /\ ConcInit /\ ReqIdle
    /\ BothIdle /\ PairIdle /\ CtxIdle
SpecConc == InitConc /\ [][ConcNext]_vars

InitConcBatch == AgentInit /\ RetryIdle /\ MemIdle /\ SendIdle /\ PgIdle /\ ClsIdle /\ ConcBatchInit /\ ReqIdle
    /\ BothIdle /\ PairIdle /\ CtxIdle
SpecConcBatch == InitConcBatch /\ [][ConcBatchNext]_vars

\* senders with any key building requests
InitReq == AgentInit /\ RetryIdle /\ MemIdle /\ SendIdle /\ PgIdle /\ ClsIdle /\ ConcIdle /\ ReqInit
    /\ BothIdle /\ PairIdle /\ CtxIdle
SpecReq == InitReq /\ [][ReqNext]_vars

\* one sequence of calls on an in-memory and on a durable storage
InitBoth == AgentInit /\ RetryIdle /\ MemInit /\ SendIdle /\ PgInit /\ ClsIdle /\ ConcIdle /\ ReqIdle
    /\ BothInit /\ PairIdle /\ CtxIdle
SpecBoth == InitBoth /\ [][BothNext]_vars

\* both Retry methods on the same operation and context
InitPair == AgentInit /\ RetryIdle /\ MemIdle /\ SendIdle /\ PgIdle /\ ClsIdle /\ ConcIdle /\ ReqIdle
    /\ BothIdle /\ PairInit /\ CtxIdle
SpecPair == InitPair /\ [][PairNext]_vars

====
